---- MODULE Spec2Model ----
(***************************************************************************)
(* Model of LegalLens.ai (kembu-2006/KEMBU-S-R): the batch upload          *)
(* orchestrator (ContractUpload), the persistence adapter                  *)
(* (storageService), the backend calls (geminiService), CompareView, and   *)
(* the App with its dashboard, analysis view and clause questions.         *)
(*                                                                         *)
(* Conventions.                                                            *)
(*   - An optional JavaScript value (a field declared with ?, or a value   *)
(*     that may be undefined) is a set: {} is undefined, {v} is v.         *)
(*   - A JavaScript array is a sequence.                                   *)
(*   - What localStorage holds under a key is the JSON text; the text of   *)
(*     an object is the function from the keys JSON.stringify writes (it   *)
(*     omits keys whose value is undefined) to the texts of their values.  *)
(*   - Contract ids are naturals; generateId is modelled as collision-free *)
(*     (it draws 11 base-36 digits from Math.random).                      *)
(***************************************************************************)
EXTENDS Integers, Sequences, FiniteSets, Bags, TLC

(***************************************************************************)
(* Bounds of the model                                                     *)
(***************************************************************************)
\* entries the batch may hold at once
MaxFiles == 2
\* contracts processFile may create (generateId calls)
MaxContracts == 2

(***************************************************************************)
(* Optional values                                                         *)
(***************************************************************************)
None == {}

Some(x) == {x}

The(s) == CHOOSE x \in s : TRUE

\* e1 || e2 on an optional string: the empty string and undefined are falsy
OrElse(s, d) == IF s = None \/ s = Some("") THEN d ELSE The(s)

Range(s) == {s[i] : i \in 1..Len(s)}

RECURSIVE SelectSeqBy(_, _)
\* Array.prototype.filter by membership of the element in a set
SelectSeqBy(s, keep) ==
    IF s = <<>> THEN <<>>
    ELSE IF Head(s) \in keep THEN <<Head(s)>> \o SelectSeqBy(Tail(s), keep)
         ELSE SelectSeqBy(Tail(s), keep)

(***************************************************************************)
(* Files offered by the user (File objects: name, type, size)              *)
(***************************************************************************)
MaxFileSize == 20 * 1024 * 1024

validTypes == {"application/pdf", "image/jpeg", "image/png", "image/webp"}

FilePool ==
    { [name |-> "a.pdf", type |-> "application/pdf", size |-> MaxFileSize],
      [name |-> "c.gif", type |-> "image/gif",       size |-> 1024],
      [name |-> "d.pdf", type |-> "application/pdf", size |-> MaxFileSize + 1] }

\* the FileLists handed to validateAndAddFiles: none, one or a pair of files
FileLists == {<<>>} \cup {<<f>> : f \in FilePool} \cup {<<f, g>> : f, g \in FilePool}

(***************************************************************************)
(* Data model (types.ts)                                                   *)
(***************************************************************************)
\* the value null, as JSON.parse("null") yields it
JsNull == [js |-> "null"]

Users == {"u1@x", "u2@x"}

QAPairs == {[question |-> "q1", answer |-> "a1", timestamp |-> 7]}

ClauseKeys == {"id", "text", "riskLevel", "conversationHistory"}

Clause1 == [id |-> "clause-1", text |-> "t1", riskLevel |-> "High",
            conversationHistory |-> None]

Clause2 == [id |-> "clause-2", text |-> "t2", riskLevel |-> "Low",
            conversationHistory |-> Some(<<CHOOSE qa \in QAPairs : TRUE>>)]

AnalysisKeys == {"summary", "overallRisk", "riskScore", "clauses", "fullText"}

\* a response that fills the whole schema
AnalysisFull ==
    [summary |-> "s1", overallRisk |-> "High", riskScore |-> Some(80),
     clauses |-> <<Clause1>>, fullText |-> Some("ocr")]

\* a response without the optional riskScore and fullText, and no clauses
AnalysisBare ==
    [summary |-> "s2", overallRisk |-> "Low", riskScore |-> None,
     clauses |-> <<>>, fullText |-> None]

ContractKeys == {"id", "userId", "fileName", "uploadDate", "status",
                 "analysis", "fileData", "mimeType"}

ContractOptional == {"analysis", "fileData", "mimeType"}

RecentKeys == {"id", "name", "createdAt", "sourceType", "fileName", "rawText",
               "riskScore", "riskSummary", "summary", "clauses"}

(***************************************************************************)
(* JSON.stringify / JSON.parse on the stored lists                         *)
(***************************************************************************)
\* keys JSON.stringify writes: those whose value is not undefined
WrittenKeys(obj, optional) == DOMAIN obj \ {k \in optional : obj[k] = None}

ClauseText(c) ==
    [k \in WrittenKeys(c, {"conversationHistory"}) |->
        IF k = "conversationHistory" THEN The(c[k]) ELSE c[k]]

ParseClause(t) ==
    [k \in ClauseKeys |->
        IF k = "conversationHistory"
        THEN (IF k \in DOMAIN t THEN Some(t[k]) ELSE None)
        ELSE t[k]]

AnalysisText(a) ==
    IF a = JsNull THEN JsNull
    ELSE [k \in WrittenKeys(a, {"riskScore", "fullText"}) |->
            IF k \in {"riskScore", "fullText"} THEN The(a[k])
            ELSE IF k = "clauses" THEN [i \in 1..Len(a[k]) |-> ClauseText(a[k][i])]
            ELSE a[k]]

ParseAnalysis(t) ==
    IF t = JsNull THEN JsNull
    ELSE [k \in AnalysisKeys |->
            IF k \in {"riskScore", "fullText"}
            THEN (IF k \in DOMAIN t THEN Some(t[k]) ELSE None)
            ELSE IF k = "clauses" THEN [i \in 1..Len(t[k]) |-> ParseClause(t[k][i])]
            ELSE t[k]]

ContractText(c) ==
    [k \in WrittenKeys(c, ContractOptional) |->
        IF k = "analysis" THEN AnalysisText(The(c[k]))
        ELSE IF k \in ContractOptional THEN The(c[k])
        ELSE c[k]]

ParseContract(t) ==
    [k \in ContractKeys |->
        IF k \in ContractOptional
        THEN (IF k \in DOMAIN t
              THEN Some(IF k = "analysis" THEN ParseAnalysis(t[k]) ELSE t[k])
              ELSE None)
        ELSE t[k]]

RecentText(r) ==
    [k \in WrittenKeys(r, {"fileName"}) |->
        IF k = "fileName" THEN The(r[k])
        ELSE IF k = "clauses" THEN [i \in 1..Len(r[k]) |-> ClauseText(r[k][i])]
        ELSE r[k]]

ParseRecent(t) ==
    [k \in RecentKeys |->
        IF k = "fileName" THEN (IF k \in DOMAIN t THEN Some(t[k]) ELSE None)
        ELSE IF k = "clauses" THEN [i \in 1..Len(t[k]) |-> ParseClause(t[k][i])]
        ELSE t[k]]

JSONstringifyContracts(cs) == [i \in 1..Len(cs) |-> ContractText(cs[i])]

JSONparseContracts(text) == [i \in 1..Len(text) |-> ParseContract(text[i])]

JSONstringifyRecent(rs) == [i \in 1..Len(rs) |-> RecentText(rs[i])]

JSONparseRecent(text) == [i \in 1..Len(text) |-> ParseRecent(text[i])]

(***************************************************************************)
(* storageService: contracts list and recent-analyses cache                *)
(* `item` is what localStorage holds under the key: None (getItem returns  *)
(* null) or Some(text).  `writeOk` is whether localStorage.setItem returns *)
(* (TRUE) or throws (FALSE, e.g. QuotaExceededError).                      *)
(***************************************************************************)
RecentCap == 10

\* contractsRaw ? JSON.parse(contractsRaw) : []
ReadContracts(item) == IF item = None THEN <<>> ELSE JSONparseContracts(The(item))

\* Array.prototype.findIndex on the id; 0 stands for -1
findIndex(cs, id) ==
    IF \E i \in 1..Len(cs) : cs[i].id = id
    THEN CHOOSE i \in 1..Len(cs) : cs[i].id = id /\ \A j \in 1..(i - 1) : cs[j].id # id
    ELSE 0

getContracts(item, userId) ==
    LET contracts == ReadContracts(item)
    IN  SelectSeqBy(contracts, {c \in Range(contracts) : c.userId = userId})

\* mutant of UpsertContract: the contract is always pushed
UpsertContractPush(contracts, contract) == Append(contracts, contract)

\* the list saveContract writes back
UpsertContract(contracts, contract) ==
    LET existingIndex == findIndex(contracts, contract.id)
    IN  IF existingIndex >= 1
        THEN [contracts EXCEPT ![existingIndex] = contract]
        ELSE Append(contracts, contract)

\* mutant of saveContract: the catch block does not rethrow
saveContractSwallow(item, contract, writeOk) ==
    IF writeOk
    THEN [threw |-> FALSE,
          item  |-> Some(JSONstringifyContracts(UpsertContract(ReadContracts(item), contract)))]
    ELSE [threw |-> FALSE, item |-> item]

\* result of saveContract: whether it threw, and the item afterwards
saveContract(item, contract, writeOk) ==
    IF writeOk
    THEN [threw |-> FALSE,
          item  |-> Some(JSONstringifyContracts(UpsertContract(ReadContracts(item), contract)))]
    ELSE [threw |-> TRUE, item |-> item]

getRecentAnalyses(item) == IF item = None THEN <<>> ELSE JSONparseRecent(The(item))

\* mutant of RecentUpdated: an entry with the same id is not removed
RecentUpdatedNoFilter(recent, analysis) ==
    LET all == <<analysis>> \o recent
    IN  SubSeq(all, 1, IF Len(all) < RecentCap THEN Len(all) ELSE RecentCap)

\* mutant of RecentUpdated: the new entry is pushed to the end
RecentUpdatedAppend(recent, analysis) ==
    LET filtered == SelectSeqBy(recent, {r \in Range(recent) : r.id # analysis.id})
        all      == filtered \o <<analysis>>
    IN  SubSeq(all, 1, IF Len(all) < RecentCap THEN Len(all) ELSE RecentCap)

\* [analysis, ...filtered].slice(0, 10)
RecentUpdated(recent, analysis) ==
    LET filtered == SelectSeqBy(recent, {r \in Range(recent) : r.id # analysis.id})
        all      == <<analysis>> \o filtered
    IN  SubSeq(all, 1, IF Len(all) < RecentCap THEN Len(all) ELSE RecentCap)

\* the item after saveRecentAnalysis (a write failure is swallowed)
saveRecentAnalysis(item, analysis, writeOk) ==
    IF writeOk
    THEN Some(JSONstringifyRecent(RecentUpdated(getRecentAnalyses(item), analysis)))
    ELSE item

\* the item after clearRecentAnalyses
clearRecentAnalyses(item) == None

\* users ? JSON.parse(users) : []  (every field of User is required, so the
\* text of a user is the user)
getUsers(item) == IF item = None THEN <<>> ELSE The(item)

\* { ...a, ...b }
Spread(a, b) == [k \in DOMAIN a \cup DOMAIN b |-> IF k \in DOMAIN b THEN b[k] ELSE a[k]]

\* the list saveUser writes back
UpsertUser(users, newUser) ==
    LET existingIndex == findIndex(users, newUser.id)
    IN  IF existingIndex >= 1
        THEN [users EXCEPT ![existingIndex] = Spread(users[existingIndex], newUser)]
        ELSE Append(users, newUser)

\* result of saveUser: whether it threw (its catch block only logs), and the
\* item afterwards
saveUser(item, newUser, writeOk) ==
    IF writeOk
    THEN [threw |-> FALSE, item |-> Some(UpsertUser(getUsers(item), newUser))]
    ELSE [threw |-> FALSE, item |-> item]

\* the item after setCurrentUser (a write failure is swallowed)
setCurrentUser(item, newUser, writeOk) ==
    IF ~writeOk THEN item
    ELSE IF newUser = None THEN None
    ELSE newUser

(***************************************************************************)
(* State                                                                   *)
(***************************************************************************)
VARIABLES
    files,        \* ContractUpload: useState<FileUploadState[]>
    globalError,  \* ContractUpload: useState<string | null>
    batch,        \* the handleAnalyzeAll run in flight, if any
    retries,      \* the retryFile calls in flight (a bag)
    completed,    \* contracts handed to onUploadComplete, in call order
    user,         \* props.user.id of ContractUpload
    lsContracts,  \* localStorage item legallens_contracts
    lsRecent,     \* localStorage item legallens_recent_analyses
    nextId,       \* ids generateId has issued so far, plus one
    now,          \* Date.now()
    submitted,    \* history: files accepted into the batch so far (2: two or more)
    lastRun,      \* history: size of the last finished handleAnalyzeAll run if it
                  \* started from pending files only and met no failure, else 0
    cvContracts,  \* CompareView: props.contracts
    comparison,   \* CompareView: useState<ComparisonResult | null>
    loading,      \* CompareView: useState(true)
    lastSave,     \* history: the last saveContract call (its argument, whether it threw)
    inserted,     \* history: the entries saveRecentAnalysis has written since the
                  \* cache was last empty or cleared, oldest first
    apiKey,       \* geminiService: whether API_KEY is a non-empty string
    requests,     \* history: compareContracts calls issued by CompareView mounts
    lastCall,     \* history: the last chat call into geminiService and how it settled
    view,         \* App: useState<View>
    selectedContract, \* App: useState<Contract | null>
    asks,         \* the handleAsk calls in flight, with what their closures hold
    asked,        \* history: handleAsk calls issued so far
    dashContracts,\* Dashboard: useState<Contract[]>, loaded when it mounts
    dashRecent,   \* Dashboard: useState<RecentAnalysis[]>, loaded when it mounts
    lsUsers,      \* localStorage item legallens_users
    lsCurrentUser,\* localStorage item legallens_current_user
    appUser,      \* App: useState<User | null>
    saves,        \* the ProfileView.handleSave calls in flight, with what they hold
    uploading,    \* the single-file handleAnalyzeAll runs in flight, with what they hold
    selectedIds   \* Dashboard: useState<string[]>, the contracts ticked for comparison

storeVars == <<lsContracts, lsRecent>>

\* state of the upload screen
uploadVars == <<files, globalError, batch, retries, completed, submitted, lastRun>>

\* state of the comparison screen
compareVars == <<cvContracts, comparison, loading>>

\* history of the calls into storageService
callVars == <<lastSave, inserted>>

\* state of the calls into geminiService
geminiVars == <<apiKey, requests, lastCall>>

\* state of App and Dashboard, and the users store
appVars == <<view, selectedContract, asks, asked, dashContracts, dashRecent,
             lsUsers, lsCurrentUser>>

\* the logged-in user of App, the profile saves and uploads in flight, and
\* the selection of the dashboard
sessionVars == <<appUser, saves, uploading, selectedIds>>

vars == <<files, globalError, batch, retries, completed, user,
          lsContracts, lsRecent, nextId, now, submitted, lastRun,
          cvContracts, comparison, loading, lastSave, inserted,
          apiKey, requests, lastCall,
          view, selectedContract, asks, asked, dashContracts, dashRecent,
          lsUsers, lsCurrentUser, appUser, saves, uploading, selectedIds>>

\* App and Dashboard with nothing selected and no question asked, the users
\* store empty
AppIdle(v) ==
    /\ view = v
    /\ selectedContract = None
    /\ asks = {}
    /\ asked = 0
    /\ dashContracts = <<>>
    /\ dashRecent = <<>>
    /\ lsUsers = None
    /\ lsCurrentUser = None
    /\ appUser = IF v = "auth" THEN None
                 ELSE Some([id |-> "u1@x", email |-> "u1@x", name |-> "User"])
    /\ saves = {}
    /\ uploading = {}
    /\ selectedIds = <<>>

(***************************************************************************)
(* ContractUpload: validation                                              *)
(***************************************************************************)
\* the two messages of validateAndAddFiles, both built from file.name
InvalidFormatMsg(file) == [text |-> "has an invalid format", name |-> file.name]

TooLargeMsg(file) == [text |-> "is too large (>20MB)", name |-> file.name]

\* mutant of Verdict: the size check is missing
VerdictTypeOnly(file) ==
    IF file.type \notin validTypes THEN "format" ELSE "ok"

\* the branch validateAndAddFiles takes for one file
Verdict(file) ==
    IF file.type \notin validTypes THEN "format"
    ELSE IF file.size > MaxFileSize THEN "size"
    ELSE "ok"

\* history: the uids that name the File objects held by the batch or by a
\* processFile call in flight
UsedUids ==
    {files[i].uid : i \in 1..Len(files)}
    \cup {call.fileState.uid : call \in BagToSet(retries)}
    \cup (IF batch = None THEN {}
          ELSE {The(batch).items[k].fileState.uid : k \in 1..Len(The(batch).items)})

\* history: a uid no held File object has
FreshUid(used) == CHOOSE n \in 1..(Cardinality(used) + 1) :
                      n \notin used /\ \A m \in 1..(n - 1) : m \in used

\* newFiles: the accepted files of the list, in order
RECURSIVE NewFiles(_, _)
NewFiles(fileList, used) ==
    IF fileList = <<>> THEN <<>>
    ELSE IF Verdict(Head(fileList)) = "ok"
         THEN <<[file |-> Head(fileList), status |-> "pending", error |-> None,
                 contract |-> None, uid |-> FreshUid(used)]>>
              \o NewFiles(Tail(fileList), used \cup {FreshUid(used)})
         ELSE NewFiles(Tail(fileList), used)

\* fileError after the forEach: the message of the last rejected file
RECURSIVE FileError(_, _)
FileError(fileList, acc) ==
    IF fileList = <<>> THEN acc
    ELSE FileError(Tail(fileList),
                   CASE Verdict(Head(fileList)) = "format" -> Some(InvalidFormatMsg(Head(fileList)))
                     [] Verdict(Head(fileList)) = "size"   -> Some(TooLargeMsg(Head(fileList)))
                     [] OTHER -> acc)

validateAndAddFiles(fileList) ==
    LET newFiles == NewFiles(fileList, UsedUids)
    IN  /\ Len(files) + Len(newFiles) <= MaxFiles
        /\ globalError' = FileError(fileList, None)
        /\ files' = files \o newFiles
        /\ submitted' = IF submitted + Len(newFiles) < 2
                        THEN submitted + Len(newFiles) ELSE 2
        /\ UNCHANGED <<batch, retries, completed, user, nextId, now, lastRun>>
        /\ UNCHANGED storeVars
        /\ UNCHANGED <<compareVars, callVars, geminiVars, appVars, sessionVars>>

(***************************************************************************)
(* ContractUpload: derived render values                                   *)
(***************************************************************************)
hasProcessing == \E i \in 1..Len(files) : files[i].status = "processing"

allSuccess == Len(files) > 0 /\ \A i \in 1..Len(files) : files[i].status = "success"

hasErrors == \E i \in 1..Len(files) : files[i].status = "error"

\* prev.filter((_, i) => i !== index)
RemoveAt(s, index) == [i \in 1..(Len(s) - 1) |-> IF i < index THEN s[i] ELSE s[i + 1]]

\* the Trash2 / Remove buttons are rendered for pending and error entries
handleRemoveFile(index) ==
    /\ index \in 1..Len(files)
    /\ files[index].status \in {"pending", "error"}
    /\ files' = RemoveAt(files, index)
    /\ globalError' = IF Len(files) <= 1 THEN None ELSE globalError
    /\ UNCHANGED <<batch, retries, completed, user, nextId, now, submitted, lastRun>>
    /\ UNCHANGED storeVars
    /\ UNCHANGED <<compareVars, callVars, geminiVars, appVars, sessionVars>>

\* the Clear All button: rendered when some entry is not processing,
\* disabled while any entry is processing
ClearAll ==
    /\ Len(files) > 0
    /\ ~hasProcessing
    /\ files' = <<>>
    /\ UNCHANGED <<globalError, batch, retries, completed, user, nextId, now,
                   submitted, lastRun>>
    /\ UNCHANGED storeVars
    /\ UNCHANGED <<compareVars, callVars, geminiVars, appVars, sessionVars>>

(***************************************************************************)
(* ContractUpload: processFile                                             *)
(***************************************************************************)
ReadFailedMsg == "Failed to read file"

SaveFailedMsg == "Analyzed successfully but failed to save to browser storage. Check available disk space."

GenericMsg == "Failed to analyze due to an unexpected error."

\* one of the classified messages handleGenAIError throws
QuotaMsg == "AI usage limit exceeded. Please try again in a few moments."

\* the TypeError of reading analysis.fullText when analysis is null
NullAnalysisMsg == "Cannot read properties of null (reading 'fullText')"

\* the message of the error localStorage.setItem throws
StorageErrorMsg == "QuotaExceededError"

\* What the environment does to one processFile call: whether the FileReader
\* loads the file, what analyzeContract settles with (a thrown Error, or the
\* value JSON.parse made of the model output: null for the output "null"),
\* and whether the two localStorage writes return.  Components the call never
\* gets to are fixed to TRUE.
Env(readOk, threw, analysis, message, writeContractsOk, writeRecentOk) ==
    [readOk |-> readOk, threw |-> threw, analysis |-> analysis, message |-> message,
     writeContractsOk |-> writeContractsOk, writeRecentOk |-> writeRecentOk]

EnvClean == Env(TRUE, FALSE, AnalysisFull, "", TRUE, TRUE)

\* the outcomes with a well-formed analysis, or none
EnvOutcomes ==
    { EnvClean,
      Env(FALSE, FALSE, AnalysisFull, "", TRUE, TRUE),
      Env(TRUE, TRUE, JsNull, QuotaMsg, TRUE, TRUE),
      Env(TRUE, FALSE, AnalysisFull, "", FALSE, TRUE),
      Env(TRUE, FALSE, AnalysisFull, "", TRUE, FALSE) }

\* the outcomes in which the model output is the JSON text "null"
EnvNullOutcomes ==
    { Env(TRUE, FALSE, JsNull, "", TRUE, TRUE),
      Env(TRUE, FALSE, JsNull, "", FALSE, TRUE) }

\* reader.result.split(',')[1] of the file
Base64(file) == [base64of |-> file.name]

\* new Date(uploadDate).toISOString()
ToISOString(date) == [iso |-> date]

\* the catch block of processFile
ErrorState(fileState, message) ==
    [fileState EXCEPT !.status = "error", !.error = Some(OrElse(message, GenericMsg))]

NewContract(fileState, userId, id, date, analysis) ==
    [id |-> id, userId |-> userId, fileName |-> fileState.file.name,
     uploadDate |-> date, status |-> "analyzed", analysis |-> Some(analysis),
     fileData |-> Some(Base64(fileState.file)), mimeType |-> Some(fileState.file.type)]

RecentOf(newContract, analysis) ==
    [id |-> newContract.id, name |-> newContract.fileName,
     createdAt |-> ToISOString(newContract.uploadDate), sourceType |-> "file",
     fileName |-> Some(newContract.fileName),
     rawText |-> OrElse(analysis.fullText, ""),
     riskScore |-> IF analysis.riskScore = None THEN 0 ELSE The(analysis.riskScore),
     riskSummary |-> analysis.overallRisk,
     summary |-> <<analysis.summary>>,
     clauses |-> analysis.clauses]

\* mutant of SaveCatch: the storage error is rethrown as it is
SaveCatchRethrow(storageErrorMsg) == storageErrorMsg

\* the message of the Error thrown by the catch around saveContract
SaveCatch(storageErrorMsg) == SaveFailedMsg

\* what processFile keeps of newContract when saveContract threw
SaveFailedState(fileState, newContract) == ErrorState(fileState, Some(SaveCatch(StorageErrorMsg)))

\* processFile(fileState) of a ContractUpload rendered for the user userId,
\* under env: the FileUploadState it resolves to, the two storage items
\* afterwards, and whether it got to generateId
processFileFor(userId, fileState, env) ==
    LET analysis    == env.analysis
        newContract == NewContract(fileState, userId, nextId, now, analysis)
        saved       == saveContract(lsContracts, newContract, env.writeContractsOk)
    IN  IF ~env.readOk
        THEN [result |-> ErrorState(fileState, Some(ReadFailedMsg)),
              contracts |-> lsContracts, recent |-> lsRecent, created |-> FALSE]
        ELSE IF env.threw
        THEN [result |-> ErrorState(fileState, Some(env.message)),
              contracts |-> lsContracts, recent |-> lsRecent, created |-> FALSE]
        ELSE IF saved.threw
        THEN [result |-> SaveFailedState(fileState, newContract),
              contracts |-> saved.item, recent |-> lsRecent, created |-> TRUE]
        ELSE IF analysis = JsNull
        THEN [result |-> ErrorState(fileState, Some(NullAnalysisMsg)),
              contracts |-> saved.item, recent |-> lsRecent, created |-> TRUE]
        ELSE [result |-> [fileState EXCEPT !.status = "success",
                                           !.contract = Some(newContract)],
              contracts |-> saved.item,
              recent |-> saveRecentAnalysis(lsRecent, RecentOf(newContract, analysis),
                                            env.writeRecentOk),
              created |-> TRUE]

\* processFile of the ContractUpload that is mounted
processFile(fileState, env) == processFileFor(user, fileState, env)

\* processFile calls in flight
InFlight == BagCardinality(retries) + (IF batch = None THEN 0
                                        ELSE Cardinality({k \in 1..Len(The(batch).items) :
                                                            The(batch).items[k].result = None}))

\* the storage and clock effects of a processFile call that settles
ProcessEffects(p) ==
    /\ lsContracts' = p.contracts
    /\ lsRecent' = p.recent
    /\ nextId' = IF p.created THEN nextId + 1 ELSE nextId
    /\ now' = IF p.created THEN now + 1 ELSE now

(***************************************************************************)
(* ContractUpload: retryFile                                               *)
(***************************************************************************)
\* retryFile up to its await: the Retry button is rendered for error entries
retryFile(index) ==
    /\ index \in 1..Len(files)
    /\ files[index].status = "error"
    /\ (nextId - 1) + InFlight < MaxContracts
    /\ files' = [files EXCEPT ![index] = [@ EXCEPT !.status = "processing", !.error = None]]
    /\ retries' = retries (+) SetToBag({[index |-> index,
                                          fileState |-> [files[index] EXCEPT
                                                            !.status = "pending",
                                                            !.error = None]]})
    /\ UNCHANGED <<globalError, batch, completed, user, nextId, now, submitted, lastRun>>
    /\ UNCHANGED <<compareVars, callVars, geminiVars, appVars, sessionVars>>
    /\ UNCHANGED storeVars

\* setFiles(prev => prev.map((f, i) => i === index ? result : f))
MapAt(prev, index, result) ==
    [i \in 1..Len(prev) |-> IF i = index THEN result ELSE prev[i]]

\* processFile settles for a retried file and retryFile runs to its end
retrySettled(call, env) ==
    /\ BagIn(call, retries)
    /\ LET p == processFile(call.fileState, env)
       IN  /\ files' = MapAt(files, call.index, p.result)
           /\ ProcessEffects(p)
    /\ retries' = retries (-) SetToBag({call})
    /\ UNCHANGED <<globalError, batch, completed, user, submitted, lastRun>>
    /\ UNCHANGED <<compareVars, callVars, geminiVars, appVars, sessionVars>>

(***************************************************************************)
(* ContractUpload: handleAnalyzeAll                                        *)
(***************************************************************************)
\* files.map((f, index) => ({file: f, index})).filter(item => item.file.status !== 'success')
RECURSIVE FilesToProcess(_, _)
FilesToProcess(fs, index) ==
    IF index > Len(fs) THEN <<>>
    ELSE IF fs[index].status # "success"
         THEN <<[index |-> index, fileState |-> fs[index], result |-> None]>>
              \o FilesToProcess(fs, index + 1)
         ELSE FilesToProcess(fs, index + 1)

\* handleAnalyzeAll up to its await.  The button is disabled while an entry
\* is processing, when the batch is empty and when every entry is success.
handleAnalyzeAll ==
    LET filesToProcess == FilesToProcess(files, 1)
    IN  /\ ~hasProcessing
        /\ Len(files) > 0
        /\ ~allSuccess
        /\ (nextId - 1) + InFlight + Len(filesToProcess) <= MaxContracts
        /\ files' = [i \in 1..Len(files) |->
                        IF files[i].status \in {"pending", "error"}
                        THEN [files[i] EXCEPT !.status = "processing", !.error = None]
                        ELSE files[i]]
        /\ batch' = Some([len |-> Len(files), items |-> filesToProcess,
                          clean |-> TRUE,
                          pendingOnly |-> \A i \in 1..Len(files) : files[i].status = "pending"])
        /\ UNCHANGED <<globalError, retries, completed, user, nextId, now, submitted, lastRun>>
        /\ UNCHANGED <<compareVars, callVars, geminiVars, appVars, sessionVars>>
        /\ UNCHANGED storeVars

\* mutant of ApplyResults: as with a Promise.all over promises that reject,
\* one failed file makes the whole run fail
ApplyResultsAllOrNothing(prev, items) ==
    LET failed == {k \in 1..Len(items) : The(items[k].result).status = "error"}
    IN  [i \in 1..Len(prev) |->
            IF \E k \in 1..Len(items) : items[k].index = i
            THEN LET k == CHOOSE k \in 1..Len(items) : items[k].index = i
                 IN  IF failed = {} THEN The(items[k].result)
                     ELSE [The(items[k].result) EXCEPT
                              !.status = "error",
                              !.error = The(items[CHOOSE f \in failed : TRUE].result).error,
                              !.contract = None]
            ELSE prev[i]]

\* results.forEach(({index, result}) => { next[index] = result })
RECURSIVE ApplyResults(_, _)
ApplyResults(prev, items) ==
    IF items = <<>> THEN prev
    ELSE ApplyResults(MapAt(prev, Head(items).index, The(Head(items).result)), Tail(items))

\* mutant of NavigationCond: files.length is not looked at
NavigationCondResultsOnly(len, items) ==
    /\ Len(items) = 1
    /\ The(items[1].result).status = "success"
    /\ The(items[1].result).contract # None

\* the condition of the navigation logic
NavigationCond(len, items) ==
    /\ len = 1
    /\ Len(items) = 1
    /\ The(items[1].result).status = "success"
    /\ The(items[1].result).contract # None

\* mutant of batchSettled: each result is written to the status list as soon
\* as its request settles
batchSettledEager(k, env) ==
    /\ batch # None
    /\ k \in 1..Len(The(batch).items)
    /\ The(batch).items[k].result = None
    /\ LET run   == The(batch)
           p     == processFile(run.items[k].fileState, env)
           items == [run.items EXCEPT ![k].result = Some(p.result)]
       IN  /\ ProcessEffects(p)
           /\ files' = MapAt(files, run.items[k].index, p.result)
           /\ batch' = IF \E j \in 1..Len(items) : items[j].result = None
                       THEN Some([run EXCEPT !.items = items])
                       ELSE None
           /\ UNCHANGED <<completed, lastRun>>
    /\ UNCHANGED <<globalError, retries, user, submitted>>
    /\ UNCHANGED <<compareVars, callVars, geminiVars, appVars, sessionVars>>

\* processFile settles for file k of the run; when it is the last one,
\* Promise.all resolves and handleAnalyzeAll runs to its end
batchSettled(k, env) ==
    /\ batch # None
    /\ k \in 1..Len(The(batch).items)
    /\ The(batch).items[k].result = None
    /\ LET run   == The(batch)
           p     == processFile(run.items[k].fileState, env)
           items == [run.items EXCEPT ![k].result = Some(p.result)]
           clean == run.clean /\ env = EnvClean
       IN  /\ ProcessEffects(p)
           /\ IF \E j \in 1..Len(items) : items[j].result = None
              THEN /\ batch' = Some([run EXCEPT !.items = items, !.clean = clean])
                   /\ UNCHANGED <<files, completed, lastRun>>
              ELSE /\ batch' = None
                   /\ files' = ApplyResults(files, items)
                   /\ completed' = IF NavigationCond(run.len, items)
                                   THEN Append(completed, The(The(items[1].result).contract))
                                   ELSE completed
                   /\ lastRun' = IF clean /\ run.pendingOnly THEN Len(items) ELSE 0
    /\ UNCHANGED <<globalError, retries, user, submitted>>
    /\ UNCHANGED <<compareVars, callVars, geminiVars, appVars, sessionVars>>

(***************************************************************************)
(* Specification of the upload screen                                      *)
(***************************************************************************)
\* recent analyses left in the cache by earlier sessions of the browser
OldRecent(n) ==
    [i \in 1..n |->
        RecentOf(NewContract([file |-> [name |-> "old.pdf", type |-> "application/pdf",
                                        size |-> 1024]],
                             "u1@x", 100 + i, 100 + i, AnalysisBare),
                 AnalysisBare)]

Init ==
    /\ files = <<>>
    /\ globalError = None
    /\ batch = None
    /\ retries = EmptyBag
    /\ completed = <<>>
    /\ user = "u1@x"
    /\ lsContracts = None
    /\ lsRecent = Some(JSONstringifyRecent(OldRecent(RecentCap - 1)))
    /\ nextId = 1
    /\ now = 1000
    /\ submitted = 0
    /\ lastRun = 0
    /\ cvContracts = <<>>
    /\ comparison = JsNull
    /\ loading = TRUE
    /\ lastSave = None
    /\ inserted = <<>>
    /\ apiKey = TRUE
    /\ requests = 0
    /\ lastCall = None
    /\ AppIdle("upload")

Next ==
    \/ \E fileList \in FileLists : validateAndAddFiles(fileList)
    \/ \E index \in 1..MaxFiles : handleRemoveFile(index)
    \/ ClearAll
    \/ \E index \in 1..MaxFiles : retryFile(index)
    \/ \E call \in BagToSet(retries), env \in EnvOutcomes : retrySettled(call, env)
    \/ handleAnalyzeAll
    \/ \E k \in 1..MaxFiles, env \in EnvOutcomes : batchSettled(k, env)

Spec == Init /\ [][Next]_vars

(***************************************************************************)
(* Properties of the upload screen                                         *)
(***************************************************************************)
\* a file the upload screen must reject: a type outside the four accepted
\* ones, or more than 20 MiB
Rejectable(file) ==
    \/ file.type \notin {"application/pdf", "image/jpeg", "image/png", "image/webp"}
    \/ file.size > 20971520

\* the accepted files of a list, in order
RECURSIVE Accepted(_)
Accepted(fileList) ==
    IF fileList = <<>> THEN <<>>
    ELSE IF Rejectable(Head(fileList)) THEN Accepted(Tail(fileList))
         ELSE <<Head(fileList)>> \o Accepted(Tail(fileList))

\* the position of the last rejected file of a list, 0 if there is none
LastRejected(fileList) ==
    IF \E i \in 1..Len(fileList) : Rejectable(fileList[i])
    THEN CHOOSE i \in 1..Len(fileList) :
            Rejectable(fileList[i]) /\ \A j \in (i + 1)..Len(fileList) : ~Rejectable(fileList[j])
    ELSE 0

\* C1 as stated: every file of the list handed to validateAndAddFiles that has
\* a wrong type or is over 20 MiB is kept out of the batch and the message
\* shown after the call names that file.
C1_EveryRejectedFileNamed ==
    [][\A fileList \in FileLists :
          validateAndAddFiles(fileList) =>
             \A i \in 1..Len(fileList) :
                Rejectable(fileList[i]) =>
                   /\ Len(files') = Len(files) + Len(Accepted(fileList))
                   /\ globalError' # None
                   /\ The(globalError').name = fileList[i].name]_vars

\* C1 amended: no file with a wrong type or over 20 MiB is ever in the batch
\* (in any status, so never processing); validateAndAddFiles appends exactly
\* the other files of the list, in order and pending, and when it rejects
\* files the message shown after the call names the last rejected file of
\* the list; when it rejects none the message is cleared.
C1_RejectedKeptOutLastNamed ==
    /\ [](\A i \in 1..Len(files) : ~Rejectable(files[i].file))
    /\ [][\A fileList \in FileLists :
            validateAndAddFiles(fileList) =>
               /\ Len(files') = Len(files) + Len(Accepted(fileList))
               /\ \A i \in 1..Len(files) : files'[i] = files[i]
               /\ \A j \in 1..Len(Accepted(fileList)) :
                     /\ files'[Len(files) + j].file = Accepted(fileList)[j]
                     /\ files'[Len(files) + j].status = "pending"
               /\ IF LastRejected(fileList) = 0
                  THEN globalError' = None
                  ELSE /\ globalError' # None
                       /\ The(globalError').name = fileList[LastRejected(fileList)].name]_vars

\* C1 witness: an oversized PDF was rejected and named while the batch holds
\* accepted files, one of them being processed
C1_Witness ==
    /\ globalError = Some(TooLargeMsg([name |-> "d.pdf"]))
    /\ Len(files) = 2
    /\ hasProcessing

\* the recent-analyses cache as getRecentAnalyses returns it
RecentNow == getRecentAnalyses(lsRecent)

Min(a, b) == IF a < b THEN a ELSE b

\* C2: when a handleAnalyzeAll run that started from N pending files and met
\* no read, backend or storage failure completes, those N files are success,
\* and the recent-analyses cache holds at most 10 entries whose first
\* min(N, 10) entries are the contracts of this run.
C2_CleanRunAllSuccessAndRecent ==
    [][(batch # None /\ batch' = None /\ lastRun' > 0) =>
          LET items == The(batch).items
              N     == Len(items)
              ids   == {The(files'[items[k].index].contract).id : k \in 1..N}
          IN  /\ N = The(batch).len
              /\ \A k \in 1..N :
                    /\ files'[items[k].index].uid = items[k].fileState.uid
                    /\ files'[items[k].index].status = "success"
              /\ Cardinality(ids) = N
              /\ Len(RecentNow') <= 10
              /\ {RecentNow'[j].id : j \in 1..Min(N, 10)} = ids]_vars

\* C2 witness: a run over two pending files went through without failure and
\* the cache, which held 9 older entries, is full
C2_Witness ==
    /\ lastRun = 2
    /\ batch = None
    /\ Len(files) = 2
    /\ allSuccess
    /\ Len(RecentNow) = RecentCap

\* C3: if exactly one file was submitted and it is success, onUploadComplete
\* has been called with that file's contract.
C3_SingleSuccessCompletes ==
    (submitted = 1 /\ Len(files) = 1 /\ files[1].status = "success")
        => \E j \in 1..Len(completed) : Some(completed[j]) = files[1].contract

\* C4 as stated: once two or more files were submitted, onUploadComplete is
\* never called.
C4_NoCompletionAfterTwoSubmitted ==
    [][submitted = 2 => completed' = completed]_vars

\* C4 amended: onUploadComplete is called only at the end of a handleAnalyzeAll
\* run that was started while the batch held exactly one entry, and then with
\* the contract of that entry; a run started on two or more entries, and a
\* retryFile, never call it.
C4_CompletionOnlyForSingleEntryRun ==
    [][completed' # completed =>
          /\ batch # None
          /\ batch' = None
          /\ The(batch).len = 1
          /\ Len(The(batch).items) = 1
          /\ files'[1].status = "success"
          /\ completed' = Append(completed, The(files'[1].contract))]_vars

\* C4 witness: onUploadComplete was called although two or more files were
\* submitted
C4_Witness == submitted = 2 /\ Len(completed) > 0

\* C5: when a retryFile call settles, every batch entry other than the one of
\* the retried file keeps its file, status, error and contract.
C5_RetryLeavesOthersUntouched ==
    [][\A call \in BagToSet(retries), env \in EnvOutcomes :
          retrySettled(call, env) =>
             \A i \in 1..Len(files) :
                files[i].uid # call.fileState.uid =>
                   (i <= Len(files') /\ files'[i] = files[i])]_vars

\* the environments in which analysis succeeds and saveContract throws
SaveFailEnvs == {env \in EnvOutcomes : env.readOk /\ ~env.threw /\ ~env.writeContractsOk}

\* the FileUploadState a settling call wrote: for a retry the entry at its
\* index, for a file of a run its result (in the status list once the run
\* has ended)
BatchWritten(k) ==
    IF batch' = None THEN files'[The(batch).items[k].index]
    ELSE The(The(batch').items[k].result)

SaveFailShown(state) ==
    /\ state.status = "error"
    /\ state.error = Some("Analyzed successfully but failed to save to browser storage. Check available disk space.")
    /\ state.error # Some(GenericMsg)
    /\ state.error # Some(StorageErrorMsg)

\* C6: when analysis succeeds and saveContract throws, the state processFile
\* resolves to, which the orchestrator writes to the status list, has status
\* error and the 'analyzed but failed to save' message, neither the generic
\* message nor the raw storage error.
C6_SaveFailureMessage ==
    [][/\ \A call \in BagToSet(retries), env \in SaveFailEnvs :
            (retrySettled(call, env) /\ call.index <= Len(files)) =>
               SaveFailShown(files'[call.index])
       /\ \A k \in 1..MaxFiles, env \in SaveFailEnvs :
            batchSettled(k, env) => SaveFailShown(BatchWritten(k))]_vars

\* C6 witness: an entry shows the save-failure message
C6_Witness ==
    \E i \in 1..Len(files) :
        files[i].status = "error" /\ files[i].error = Some(SaveFailedMsg)

\* C7: when analysis succeeds and saveContract throws, the analysis stays
\* held: the state written for the file carries a contract with that
\* analysis, or the contract was handed to onUploadComplete.
C7_AnalysisKeptOnSaveFailure ==
    [][/\ \A call \in BagToSet(retries), env \in SaveFailEnvs :
            (retrySettled(call, env) /\ call.index <= Len(files)) =>
               \/ /\ files'[call.index].contract # None
                  /\ The(files'[call.index].contract).analysis = Some(env.analysis)
               \/ completed' # completed
       /\ \A k \in 1..MaxFiles, env \in SaveFailEnvs :
            batchSettled(k, env) =>
               \/ /\ BatchWritten(k).contract # None
                  /\ The(BatchWritten(k).contract).analysis = Some(env.analysis)
               \/ completed' # completed]_vars

(***************************************************************************)
(* CompareView: the recommended contract                                   *)
(***************************************************************************)
\* contracts the comparison screen may be opened with
MaxCompare == 3

\* a stored contract without file data (as handleSelectRecent builds it)
PlainContract(id, fileName) ==
    [id |-> id, userId |-> "u1@x", fileName |-> fileName, uploadDate |-> 1000,
     status |-> "analyzed", analysis |-> Some(AnalysisBare),
     fileData |-> None, mimeType |-> None]

\* two contracts share the id 1, so that the first match can be told from a later one
ComparePool ==
    {PlainContract(1, "one.pdf"), PlainContract(1, "uno.pdf"), PlainContract(2, "two.pdf")}

RECURSIVE ContractLists(_)
ContractLists(n) ==
    IF n = 0 THEN {<<>>}
    ELSE ContractLists(n - 1)
         \cup {Append(cs, c) : cs \in {l \in ContractLists(n - 1) : Len(l) = n - 1},
                               c \in ComparePool}

\* a ComparisonResult as parseJSONResponse returns it; recommendedId is the
\* id the model output names, None when the output has no such key
Comparison(recommendedId) ==
    [recommendedId |-> recommendedId, reasoning |-> "r", keyDifferences |-> <<"d">>]

\* what compareContracts may resolve to: null (the output "null"), an id of
\* an input contract, an id of none of them, or no id
ComparisonResults ==
    {JsNull, Comparison(Some(1)), Comparison(Some(2)), Comparison(Some(9)), Comparison(None)}

RECURSIVE find(_, _)
\* contracts.find(c => c.id === recommendedId): the first match, else undefined
find(contracts, recommendedId) ==
    IF contracts = <<>> THEN None
    ELSE IF Some(Head(contracts).id) = recommendedId THEN Some(Head(contracts))
         ELSE find(Tail(contracts), recommendedId)

\* mutant of Winner: no fallback to contracts[0]
WinnerNoFallback(contracts, result) == find(contracts, result.recommendedId)

\* contracts.find(...) || contracts[0]; contracts[0] of an empty array is undefined
Winner(contracts, result) ==
    LET found == find(contracts, result.recommendedId)
    IN  IF found # None THEN found
        ELSE IF Len(contracts) > 0 THEN Some(contracts[1]) ELSE None

\* one render of CompareView: the branch taken, the winner it resolved and
\* whether it threw (winner.fileName of an undefined winner is a TypeError)
Render ==
    IF loading THEN [view |-> "loading", winner |-> None, threw |-> FALSE]
    ELSE IF comparison = JsNull THEN [view |-> "failed", winner |-> None, threw |-> FALSE]
    ELSE LET winner == Winner(cvContracts, comparison)
         IN  [view |-> "result", winner |-> winner, threw |-> winner = None]

\* compareContracts resolves: setComparison(result), then setLoading(false)
fetchComparisonResolved(result) ==
    /\ Len(cvContracts) > 0
    /\ loading
    /\ comparison' = result
    /\ loading' = FALSE
    /\ UNCHANGED <<cvContracts, user, nextId, now>>
    /\ UNCHANGED <<uploadVars, storeVars, callVars, geminiVars, appVars, sessionVars>>

\* compareContracts rejects (no API key, or a backend error): the catch logs
\* it and setLoading(false) runs
fetchComparisonRejected ==
    /\ Len(cvContracts) > 0
    /\ loading
    /\ loading' = FALSE
    /\ UNCHANGED <<cvContracts, comparison, user, nextId, now>>
    /\ UNCHANGED <<uploadVars, storeVars, callVars, geminiVars, appVars, sessionVars>>

\* the upload screen at rest, the stores empty
Idle ==
    /\ files = <<>>
    /\ globalError = None
    /\ batch = None
    /\ retries = EmptyBag
    /\ completed = <<>>
    /\ user = "u1@x"
    /\ lsContracts = None
    /\ lsRecent = None
    /\ nextId = 1
    /\ now = 1000
    /\ submitted = 0
    /\ lastRun = 0
    /\ lastSave = None
    /\ inserted = <<>>
    /\ apiKey = TRUE
    /\ requests = 0
    /\ lastCall = None
    /\ AppIdle("dashboard")

\* CompareView is mounted with some list of contracts
InitCompare ==
    /\ Idle
    /\ cvContracts \in ContractLists(MaxCompare)
    /\ comparison = JsNull
    /\ loading = TRUE

NextCompare ==
    \/ \E result \in ComparisonResults : fetchComparisonResolved(result)
    \/ fetchComparisonRejected

SpecCompare == InitCompare /\ [][NextCompare]_vars

\* C8: no render of CompareView throws; once a comparison result is there
\* for a non-empty list of contracts, the recommended contract shown is the
\* first input contract whose id equals recommendedId if there is one, and
\* the first input contract otherwise.
C8_RecommendedOrFirst ==
    /\ ~Render.threw
    /\ (Len(cvContracts) > 0 /\ ~loading /\ comparison # JsNull) =>
          LET matches == {i \in 1..Len(cvContracts) :
                             Some(cvContracts[i].id) = comparison.recommendedId}
          IN  /\ Render.view = "result"
              /\ Render.winner # None
              /\ \E i \in 1..Len(cvContracts) :
                    /\ The(Render.winner) = cvContracts[i]
                    /\ IF matches = {} THEN i = 1
                       ELSE i \in matches /\ \A j \in matches : i <= j

\* C8 witness: the result names an id that none of three contracts has and
\* the first contract is shown
C8_Witness ==
    /\ Len(cvContracts) = 3
    /\ ~loading
    /\ comparison = Comparison(Some(9))
    /\ Render.winner = Some(cvContracts[1])

(***************************************************************************)
(* storageService: saving and reloading contracts                          *)
(***************************************************************************)
\* distinct contract ids handed to saveContract
MaxStored == 2

\* the contracts handed to saveContract: per id and user one as processFile
\* builds it (every optional field set, the full analysis schema) and one
\* with every optional field undefined
ContractPool ==
    UNION {{NewContract([file |-> [name |-> "a.pdf", type |-> "application/pdf",
                                   size |-> 1024]], userId, id, 1000 + id, AnalysisFull),
            [id |-> id, userId |-> userId, fileName |-> "b.png", uploadDate |-> 2000 + id,
             status |-> "pending", analysis |-> None, fileData |-> None,
             mimeType |-> None]} : id \in 1..MaxStored, userId \in Users}

\* a saveContract call (from processFile or handleContractUpdate) runs to its end
saveContractCall(contract, writeOk) ==
    LET saved == saveContract(lsContracts, contract, writeOk)
    IN  /\ lsContracts' = saved.item
        /\ lastSave' = Some([contract |-> contract, threw |-> saved.threw])
        /\ UNCHANGED <<lsRecent, inserted, user, nextId, now>>
        /\ UNCHANGED <<uploadVars, compareVars, geminiVars, appVars, sessionVars>>

InitContracts ==
    /\ Idle
    /\ cvContracts = <<>>
    /\ comparison = JsNull
    /\ loading = TRUE

NextContracts ==
    \E contract \in ContractPool, writeOk \in BOOLEAN : saveContractCall(contract, writeOk)

SpecContracts == InitContracts /\ [][NextContracts]_vars

\* C9: after a saveContract(c) that returned, getContracts(c.userId) has
\* exactly one entry with the id of c, and that entry equals c field for field.
C9_SavedContractReloads ==
    (lastSave # None /\ ~The(lastSave).threw) =>
        LET c    == The(lastSave).contract
            got  == getContracts(lsContracts, c.userId)
            hits == {i \in 1..Len(got) : got[i].id = c.id}
        IN  /\ Cardinality(hits) = 1
            /\ \A i \in hits : \A k \in ContractKeys : got[i][k] = c[k]

\* C9 witness: the contract saved last, whose optional fields are undefined,
\* replaced the first of two stored entries; the other belongs to another user
C9_Witness ==
    /\ lastSave # None
    /\ ~The(lastSave).threw
    /\ The(lastSave).contract.analysis = None
    /\ Len(ReadContracts(lsContracts)) = 2
    /\ ReadContracts(lsContracts)[1] = The(lastSave).contract
    /\ ReadContracts(lsContracts)[2].userId # The(lastSave).contract.userId

(***************************************************************************)
(* storageService: the recent-analyses cache                               *)
(***************************************************************************)
\* distinct ids handed to saveRecentAnalysis
MaxRecentIds == 11
\* saveRecentAnalysis calls with an id used before, since the last clear
MaxReinserts == 1

\* the ids saveRecentAnalysis is called with a second time
ReinsertIds == {1, 2}

\* a RecentAnalysis; name tells the first insertion of an id from a later one
RecentEntry(id, name) ==
    [id |-> id, name |-> name, createdAt |-> ToISOString(1000 + id),
     sourceType |-> "file", fileName |-> None, rawText |-> "",
     riskScore |-> 0, riskSummary |-> "Low", summary |-> <<"s2">>, clauses |-> <<>>]

Reinserts == Cardinality({i \in 1..Len(inserted) : inserted[i].name = "again"})

\* a saveRecentAnalysis call runs to its end
saveRecentAnalysisCall(analysis, writeOk) ==
    /\ lsRecent' = saveRecentAnalysis(lsRecent, analysis, writeOk)
    /\ inserted' = IF writeOk THEN Append(inserted, analysis) ELSE inserted
    /\ UNCHANGED <<lsContracts, lastSave, user, now>>
    /\ UNCHANGED <<uploadVars, compareVars, geminiVars, appVars, sessionVars>>

\* saveRecentAnalysis with an id not written before
insertFresh(writeOk) ==
    /\ nextId <= MaxRecentIds
    /\ nextId' = IF writeOk THEN nextId + 1 ELSE nextId
    /\ saveRecentAnalysisCall(RecentEntry(nextId, "first"), writeOk)

\* saveRecentAnalysis with an id written before
insertAgain(id, writeOk) ==
    /\ id < nextId
    /\ Reinserts < MaxReinserts
    /\ nextId' = nextId
    /\ saveRecentAnalysisCall(RecentEntry(id, "again"), writeOk)

\* handleClearHistory, confirmed: clearRecentAnalyses
clearHistory ==
    /\ lsRecent' = clearRecentAnalyses(lsRecent)
    /\ inserted' = <<>>
    /\ UNCHANGED <<lsContracts, lastSave, user, nextId, now>>
    /\ UNCHANGED <<uploadVars, compareVars, geminiVars, appVars, sessionVars>>

InitRecent ==
    /\ Idle
    /\ cvContracts = <<>>
    /\ comparison = JsNull
    /\ loading = TRUE

NextRecent ==
    \/ \E writeOk \in BOOLEAN : insertFresh(writeOk)
    \/ \E id \in ReinsertIds, writeOk \in BOOLEAN : insertAgain(id, writeOk)
    \/ clearHistory

SpecRecent == InitRecent /\ [][NextRecent]_vars

\* position in `inserted` of the last insertion of an id, 0 if there is none
LastInsertion(id) ==
    IF \E i \in 1..Len(inserted) : inserted[i].id = id
    THEN CHOOSE i \in 1..Len(inserted) :
            inserted[i].id = id /\ \A j \in (i + 1)..Len(inserted) : inserted[j].id # id
    ELSE 0

\* C10: from an empty or cleared cache, after any saveRecentAnalysis and
\* clearRecentAnalyses calls the cache has at most 10 entries and no id
\* twice; each entry is the last one inserted under its id; the entries are
\* in the order of their last insertion, latest first; and the entries kept
\* are those inserted last (an id inserted again is at the front once, an
\* 11th distinct id pushes the oldest out).
C10_RecentCacheOrdered ==
    LET cache == RecentNow
        ids   == {inserted[i].id : i \in 1..Len(inserted)}
    IN  /\ Len(cache) <= 10
        /\ \A i, j \in 1..Len(cache) : i # j => cache[i].id # cache[j].id
        /\ Len(cache) = Min(Cardinality(ids), 10)
        /\ \A i \in 1..Len(cache) :
              /\ LastInsertion(cache[i].id) > 0
              /\ cache[i] = inserted[LastInsertion(cache[i].id)]
        /\ \A i, j \in 1..Len(cache) :
              i < j => LastInsertion(cache[i].id) > LastInsertion(cache[j].id)
        /\ \A id \in ids :
              (\A i \in 1..Len(cache) : cache[i].id # id) =>
                 \A i \in 1..Len(cache) : LastInsertion(id) < LastInsertion(cache[i].id)

\* C10 witness: eleven ids were inserted, the cache is full, the first id was
\* pushed out, and the entry at the front is one inserted a second time
C10_Witness ==
    /\ Cardinality({inserted[i].id : i \in 1..Len(inserted)}) = 11
    /\ Len(RecentNow) = 10
    /\ RecentNow[1] = RecentEntry(2, "again")
    /\ \A i \in 1..10 : RecentNow[i].id # 1

(***************************************************************************)
(* Properties of the status list                                           *)
(***************************************************************************)
\* the status changes the upload screen allows for an entry
LegalStatusChanges ==
    {<<"pending", "processing">>, <<"processing", "success">>,
     <<"processing", "error">>, <<"error", "processing">>}

\* C15: in every step that removes no entry, an entry of the status list
\* keeps its status or changes it by pending->processing, processing->success,
\* processing->error or error->processing, and an entry in success stays as
\* it is (same file, status and contract).
C15_OnlyLegalStatusChanges ==
    [][Len(files') >= Len(files) =>
          \A i \in 1..Len(files) :
             /\ \/ files'[i].status = files[i].status
                \/ <<files[i].status, files'[i].status>> \in LegalStatusChanges
             /\ files[i].status = "success" => files'[i] = files[i]]_vars

\* C16: while a handleAnalyzeAll run is in flight every file of the run is
\* shown as processing, whether its own request has settled or not; the
\* status list changes for the files of the run only in the step in which
\* the last request settles, and then all results are written at once.
C16_BatchAppliedAtOnce ==
    /\ [](batch # None =>
            \A k \in 1..Len(The(batch).items) :
               LET item == The(batch).items[k]
               IN  /\ item.index <= Len(files)
                   /\ files[item.index].uid = item.fileState.uid
                   /\ files[item.index].status = "processing")
    /\ [][(batch # None /\ batch' = None) =>
             \A k \in 1..Len(The(batch).items) :
                LET item == The(batch).items[k]
                IN  /\ files'[item.index].uid = item.fileState.uid
                    /\ files'[item.index].status \in {"success", "error"}]_vars

\* C16 witness: of a run over two files one request has settled with success
\* and the other is in flight; both files are shown as processing
C16_Witness ==
    /\ batch # None
    /\ Len(The(batch).items) = 2
    /\ The(batch).items[1].result # None
    /\ The(The(batch).items[1].result).status = "success"
    /\ The(batch).items[2].result = None
    /\ \A i \in 1..2 : files[i].status = "processing"

\* the environments in which a file's own read, analysis and save succeed
OwnSuccessEnvs == {env \in EnvOutcomes : env.readOk /\ ~env.threw /\ env.writeContractsOk}

\* C17: handleAnalyzeAll issues the requests of all files that are not
\* success in one step, none waiting for another; the result of a file is
\* success exactly when its own read, analysis and save succeeded; a settling
\* request, failed or not, leaves the other requests of the run in flight and
\* the results of the settled ones as they are; and at the end of the run
\* every file shows its own result.
C17_FilesSettleIndependently ==
    /\ [][(batch = None /\ batch' # None) =>
             /\ {The(batch').items[k].index : k \in 1..Len(The(batch').items)}
                   = {i \in 1..Len(files) : files[i].status # "success"}
             /\ \A k \in 1..Len(The(batch').items) :
                   /\ The(batch').items[k].result = None
                   /\ The(batch').items[k].fileState = files[The(batch').items[k].index]]_vars
    /\ [][\A k \in 1..MaxFiles, env \in EnvOutcomes :
             batchSettled(k, env) =>
                /\ (BatchWritten(k).status = "success") <=> (env \in OwnSuccessEnvs)
                /\ BatchWritten(k).status \in {"success", "error"}
                /\ \A j \in 1..Len(The(batch).items) :
                      j # k =>
                         IF The(batch).items[j].result = None
                         THEN /\ batch' # None
                              /\ The(batch').items[j] = The(batch).items[j]
                         ELSE IF batch' = None
                         THEN files'[The(batch).items[j].index] = The(The(batch).items[j].result)
                         ELSE The(batch').items[j] = The(batch).items[j]]_vars

\* C17 witness: the first request of a run over two files failed and the
\* second is still in flight
C17_Witness ==
    /\ batch # None
    /\ Len(The(batch).items) = 2
    /\ The(batch).items[1].result # None
    /\ The(The(batch).items[1].result).status = "error"
    /\ The(batch).items[2].result = None

(***************************************************************************)
(* Specification of the retries on a batch of failed files                 *)
(***************************************************************************)
\* entries of the batch whose analysis failed
MaxBatch == 3

\* the upload screen after a handleAnalyzeAll run in which the FileReader
\* failed on every file: MaxBatch entries in status error, nothing stored
InitRetry ==
    /\ files = [i \in 1..MaxBatch |->
                  ErrorState([file |-> [name |-> "a.pdf", type |-> "application/pdf",
                                        size |-> MaxFileSize],
                              status |-> "processing", error |-> None,
                              contract |-> None, uid |-> i],
                             Some(ReadFailedMsg))]
    /\ globalError = None
    /\ batch = None
    /\ retries = EmptyBag
    /\ completed = <<>>
    /\ user = "u1@x"
    /\ lsContracts = None
    /\ lsRecent = None
    /\ nextId = 1
    /\ now = 1000
    /\ submitted = 2
    /\ lastRun = 0
    /\ cvContracts = <<>>
    /\ comparison = JsNull
    /\ loading = TRUE
    /\ lastSave = None
    /\ inserted = <<>>
    /\ apiKey = TRUE
    /\ requests = 0
    /\ lastCall = None
    /\ AppIdle("upload")

NextRetry ==
    \/ \E index \in 1..MaxBatch : retryFile(index)
    \/ \E call \in BagToSet(retries), env \in EnvOutcomes : retrySettled(call, env)
    \/ \E index \in 1..MaxBatch : handleRemoveFile(index)

SpecRetry == InitRetry /\ [][NextRetry]_vars

\* C20: no step takes a file out of the batch while its status is
\* processing: every entry that is processing before a step is an entry of
\* the batch, with the same file, after it.
C20_ProcessingFileStaysInBatch ==
    [][\A i \in 1..Len(files) :
          files[i].status = "processing" =>
             \E j \in 1..Len(files') :
                /\ files'[j].uid = files[i].uid
                /\ files'[j].file = files[i].file]_vars

(***************************************************************************)
(* geminiService: error handling of the backend calls                      *)
(***************************************************************************)
\* What ai.models.generateContent settles with: a thrown Error with a
\* message, or a response whose text is undefined (None), a string, or a
\* JSON text.  A JSON text is the record of the value it encodes and of
\* whether the model wrapped it in a Markdown code fence.
Thrown(message) == [threw |-> TRUE, message |-> message, text |-> None]

Response(text) == [threw |-> FALSE, message |-> "", text |-> text]

\* a response text: its characters, whether it is wrapped in a code fence,
\* and the value JSON.parse gives for the unwrapped characters (None when
\* they are not JSON)
Text(chars, fenced, json) == [chars |-> chars, fenced |-> fenced, json |-> json]

Prose(chars) == Text(chars, FALSE, None)

JsonText(value, fenced) == Text("json", fenced, Some(value))

BackendDownMsg == "503 Service Unavailable"

RateLimitMsg == "429 Too Many Requests"

EmptyResponseMsg == "Empty response from AI service."

ParseFailedMsg == "Failed to parse AI response. The model output was not valid JSON."

ApiKeyMissingMsg == "API Key missing"

ClausesUndefinedMsg == "Cannot read properties of undefined (reading 'map')"

\* the message of an Error: a fixed part and an interpolated one
Err(prefix, message) == [prefix |-> prefix, message |-> message]

\* the words handleGenAIError looks for that occur in the lower-cased message
MessageWords(message) ==
    CASE message = BackendDownMsg -> {"503", "unavailable"}
      [] message = RateLimitMsg   -> {"429"}
      [] message = ParseFailedMsg -> {"json", "parse"}
      [] message = "Resource exhausted: quota exceeded for this API key"
                                  -> {"quota", "resource exhausted", "key"}
      [] message = "403 Permission denied" -> {"403", "permission"}
      [] message = "API key not valid. Please pass a valid API key." -> {"key"}
      [] message = "413 Request entity too large" -> {"413", "too large"}
      [] message = "The model is overloaded. Please try again later." -> {"overloaded"}
      [] message = "Response was blocked due to SAFETY" -> {"safety", "blocked"}
      [] message = "Unexpected token < in JSON at position 0" -> {"json"}
      [] message = "Invalid JSON payload received. Unknown name \"key\"" -> {"json", "key"}
      [] message = "Upload blocked: the file is too large" -> {"too large", "blocked"}
      [] OTHER                    -> {}

\* the Error handleGenAIError throws
handleGenAIError(message) ==
    LET msg == MessageWords(message)
    IN  IF message = "" THEN Err("", "An unexpected error occurred during processing.")
        ELSE IF msg \cap {"429", "quota", "resource exhausted"} # {} THEN Err("", QuotaMsg)
        ELSE IF msg \cap {"403", "key", "permission"} # {}
             THEN Err("", "Authentication failed. Please check the system configuration.")
        ELSE IF msg \cap {"413", "too large"} # {}
             THEN Err("", "The document is too large for the AI to process.")
        ELSE IF msg \cap {"503", "overloaded", "unavailable"} # {}
             THEN Err("", "AI service is temporarily unavailable. Please retry.")
        ELSE IF msg \cap {"safety", "blocked"} # {}
             THEN Err("", "The document was flagged by safety settings and could not be analyzed.")
        ELSE IF msg \cap {"json", "parse"} # {}
             THEN Err("", "Received an invalid response format from AI. Please retry.")
        ELSE Err("Processing failed: ", message)

\* how a call settles: rejected with an Error, or resolved with a value
Rejected(error) == [rejected |-> TRUE, error |-> error]

Resolved(value) == [rejected |-> FALSE, value |-> value]

\* text.replace of the opening and closing code fence
StripFence(text) == [text EXCEPT !.fenced = FALSE]

\* mutant of parseJSONResponse: a response that cannot be parsed yields an
\* empty result instead of an Error
parseJSONResponseFallback(text) ==
    IF text = None \/ The(text).chars = "" \/ StripFence(The(text)).json = None
    THEN Resolved([recommendedId |-> None, reasoning |-> "", keyDifferences |-> <<>>])
    ELSE Resolved(The(StripFence(The(text)).json))

\* parseJSONResponse: throws on an empty text and on a text that is not
\* JSON; a code fence around the JSON text is removed before JSON.parse
parseJSONResponse(text) ==
    IF text = None \/ The(text).chars = "" THEN Rejected(Err("", EmptyResponseMsg))
    ELSE LET cleanText == StripFence(The(text))
         IN  IF cleanText.fenced \/ cleanText.json = None
             THEN Rejected(Err("", ParseFailedMsg))
             ELSE Resolved(The(cleanText.json))

\* c.analysis?.clauses.map(...) throws when analysis is an object without clauses
ContextThrows(contracts) ==
    \E i \in 1..Len(contracts) :
        /\ contracts[i].analysis # None
        /\ The(contracts[i].analysis) # JsNull
        /\ "clauses" \notin DOMAIN The(contracts[i].analysis)

compareContracts(contracts, key, outcome) ==
    IF ~key THEN Rejected(Err("", ApiKeyMissingMsg))
    ELSE IF ContextThrows(contracts) THEN Rejected(Err("", ClausesUndefinedMsg))
    ELSE IF outcome.threw THEN Rejected(handleGenAIError(outcome.message))
    ELSE LET parsed == parseJSONResponse(outcome.text)
         IN  IF parsed.rejected THEN Rejected(handleGenAIError(parsed.error.message))
             ELSE parsed

\* response.text || fallback
TextOr(text, fallback) ==
    IF text = None \/ The(text).chars = "" THEN fallback ELSE The(text).chars

\* mutant of SoftReply: the catch block rethrows
SoftReplyRethrow(outcome, fallback, softError) ==
    IF outcome.threw THEN Rejected(Err("", outcome.message))
    ELSE Resolved(TextOr(outcome.text, fallback))

\* the try/catch of the three chat functions: response.text || fallback,
\* and the soft error string when generateContent throws
SoftReply(outcome, fallback, softError) ==
    IF outcome.threw THEN Resolved(softError)
    ELSE Resolved(TextOr(outcome.text, fallback))

askClauseQuestion(key, outcome) ==
    IF ~key THEN Resolved("API Key missing.")
    ELSE SoftReply(outcome, "Could not generate an answer.",
                   "Sorry, I couldn't answer that right now due to a connection issue.")

sendChatMessage(key, outcome) ==
    IF ~key THEN Resolved("API Key missing.")
    ELSE SoftReply(outcome, "I couldn't generate a response.",
                   "Sorry, I'm having trouble connecting right now. Please try again.")

queryComparisonDifference(key, contracts, outcome) ==
    IF ~key THEN Resolved("API Key missing.")
    ELSE IF ContextThrows(contracts) THEN Rejected(Err("", ClausesUndefinedMsg))
    ELSE SoftReply(outcome, "I couldn't generate a response.",
                   "Sorry, I'm having trouble connecting right now. Please try again.")

(***************************************************************************)
(* Specification of the backend calls: CompareView's comparison request    *)
(* and the three chat functions                                            *)
(***************************************************************************)
\* compareContracts calls (mounts of CompareView with contracts)
MaxRequests == 2

\* an analysis the backend returned without the clauses array
AnalysisNoClauses == [summary |-> "s3", overallRisk |-> "Low", riskScore |-> Some(0),
                      fullText |-> Some("ocr")]

\* stored contracts: two analysed ones, one without analysis, one whose
\* analysis has no clauses
GeminiPool ==
    { PlainContract(1, "one.pdf"),
      [PlainContract(2, "two.pdf") EXCEPT !.analysis = Some(AnalysisFull)],
      [PlainContract(3, "three.pdf") EXCEPT !.analysis = None, !.status = "pending"],
      [PlainContract(4, "four.pdf") EXCEPT !.analysis = Some(AnalysisNoClauses)] }

\* handleCompareClick passes on two or more selected contracts
GeminiLists == {<<c, d>> : c, d \in GeminiPool}

\* what generateContent may settle with for a chat question
ChatOutcomes ==
    { Thrown(BackendDownMsg), Response(None), Response(Some(Prose(""))),
      Response(Some(Prose("answer"))) }

\* what generateContent may settle with for a comparison
CompareOutcomes ==
    { Thrown(BackendDownMsg), Thrown(RateLimitMsg), Thrown(""),
      Response(None), Response(Some(Prose(""))),
      Response(Some(Prose("I cannot compare these."))),
      Response(Some(JsonText(Comparison(Some(1)), FALSE))),
      Response(Some(JsonText(Comparison(Some(2)), TRUE))),
      Response(Some(JsonText(JsNull, FALSE))) }

\* handleCompare, then the mount of CompareView and its effect: the
\* comparison request is issued
handleCompare(contracts) ==
    /\ ~loading \/ cvContracts = <<>>
    /\ requests < MaxRequests
    /\ cvContracts' = contracts
    /\ comparison' = JsNull
    /\ loading' = TRUE
    /\ requests' = requests + 1
    /\ UNCHANGED <<apiKey, lastCall, user, nextId, now>>
    /\ UNCHANGED <<uploadVars, storeVars, callVars, appVars, sessionVars>>

\* fetchComparison after its await: try / catch / finally
fetchComparisonSettled(outcome) ==
    /\ Len(cvContracts) > 0
    /\ loading
    /\ LET result == compareContracts(cvContracts, apiKey, outcome)
       IN  /\ comparison' = IF result.rejected THEN comparison ELSE result.value
           /\ lastCall' = Some([fn |-> "compareContracts", settled |-> result])
    /\ loading' = FALSE
    /\ UNCHANGED <<cvContracts, apiKey, requests, user, nextId, now>>
    /\ UNCHANGED <<uploadVars, storeVars, callVars, appVars, sessionVars>>

\* ClauseCard.handleAsk: the askClauseQuestion call settles
askClauseQuestionCall(outcome) ==
    /\ lastCall' = Some([fn |-> "askClauseQuestion",
                         settled |-> askClauseQuestion(apiKey, outcome)])
    /\ UNCHANGED <<apiKey, requests, user, nextId, now>>
    /\ UNCHANGED <<uploadVars, storeVars, callVars, compareVars, appVars, sessionVars>>

\* ChatBot.handleSend: the sendChatMessage call settles
sendChatMessageCall(outcome) ==
    /\ lastCall' = Some([fn |-> "sendChatMessage",
                         settled |-> sendChatMessage(apiKey, outcome)])
    /\ UNCHANGED <<apiKey, requests, user, nextId, now>>
    /\ UNCHANGED <<uploadVars, storeVars, callVars, compareVars, appVars, sessionVars>>

\* DifferenceChatModal (briefing and handleSend): the modal opens from a key
\* difference of a rendered comparison; the queryComparisonDifference call settles
queryComparisonDifferenceCall(outcome) ==
    /\ ~loading
    /\ comparison # JsNull
    /\ Len(comparison.keyDifferences) > 0
    /\ lastCall' = Some([fn |-> "queryComparisonDifference",
                         settled |-> queryComparisonDifference(apiKey, cvContracts, outcome)])
    /\ UNCHANGED <<apiKey, requests, user, nextId, now>>
    /\ UNCHANGED <<uploadVars, storeVars, callVars, compareVars, appVars, sessionVars>>

\* the dashboard is shown; the build has an API key or not
InitGemini ==
    /\ files = <<>>
    /\ globalError = None
    /\ batch = None
    /\ retries = EmptyBag
    /\ completed = <<>>
    /\ user = "u1@x"
    /\ lsContracts = None
    /\ lsRecent = None
    /\ nextId = 1
    /\ now = 1000
    /\ submitted = 0
    /\ lastRun = 0
    /\ lastSave = None
    /\ inserted = <<>>
    /\ cvContracts = <<>>
    /\ comparison = JsNull
    /\ loading = TRUE
    /\ apiKey \in BOOLEAN
    /\ requests = 0
    /\ lastCall = None
    /\ AppIdle("dashboard")

NextGemini ==
    \/ \E contracts \in GeminiLists : handleCompare(contracts)
    \/ \E outcome \in CompareOutcomes : fetchComparisonSettled(outcome)
    \/ \E outcome \in ChatOutcomes : askClauseQuestionCall(outcome)
    \/ \E outcome \in ChatOutcomes : sendChatMessageCall(outcome)
    \/ \E outcome \in ChatOutcomes : queryComparisonDifferenceCall(outcome)

SpecGemini == InitGemini /\ [][NextGemini]_vars

ChatFunctions == {"askClauseQuestion", "sendChatMessage", "queryComparisonDifference"}

\* the strings of the chat functions, and the texts of the backend
ChatStrings ==
    { "API Key missing.", "Could not generate an answer.",
      "Sorry, I couldn't answer that right now due to a connection issue.",
      "I couldn't generate a response.",
      "Sorry, I'm having trouble connecting right now. Please try again." }
    \cup {The(outcome.text).chars : outcome \in {o \in ChatOutcomes : o.text # None}}

\* C11: every call of askClauseQuestion, sendChatMessage and
\* queryComparisonDifference resolves to a string, whatever the backend did
\* and with or without an API key; none rejects.
C11_ChatCallsResolveToString ==
    (lastCall # None /\ The(lastCall).fn \in ChatFunctions) =>
        /\ ~The(lastCall).settled.rejected
        /\ The(lastCall).settled.value \in ChatStrings

\* C11 witness: the backend threw on a question about a comparison and the
\* call resolved to the soft error string
C11_Witness ==
    /\ apiKey
    /\ lastCall # None
    /\ The(lastCall).fn = "queryComparisonDifference"
    /\ ~The(lastCall).settled.rejected
    /\ The(lastCall).settled.value =
           "Sorry, I'm having trouble connecting right now. Please try again."

\* the backend failed, returned an empty response or returned non-JSON output
BackendFailed(outcome) ==
    \/ outcome.threw
    \/ outcome.text = None
    \/ The(outcome.text).chars = ""
    \/ The(outcome.text).json = None

\* C18: when the backend fails, returns an empty response or returns output
\* that is not JSON, compareContracts rejects, and CompareView is then in the
\* comparison-failed state: loading is over, there is no result, the failed
\* view is rendered, and as long as this view stays no further request is
\* issued and no result arrives.
C18_CompareFailsHard ==
    /\ [][\A outcome \in CompareOutcomes :
             (fetchComparisonSettled(outcome) /\ BackendFailed(outcome)) =>
                /\ compareContracts(cvContracts, apiKey, outcome).rejected
                /\ The(lastCall').settled.rejected
                /\ ~loading'
                /\ comparison' = JsNull
                /\ requests' = requests]_vars
    /\ []((~loading /\ comparison = JsNull) =>
             (Render.view = "failed" /\ Render.winner = None))
    /\ [][(~loading /\ ~loading') =>
             (requests' = requests /\ comparison' = comparison)]_vars

\* C18 witness: the model output was not JSON; compareContracts rejected
\* with the invalid-format message and the view is the failed one
C18_Witness ==
    /\ lastCall # None
    /\ The(lastCall).fn = "compareContracts"
    /\ The(lastCall).settled.rejected
    /\ The(lastCall).settled.error =
           Err("", "Received an invalid response format from AI. Please retry.")
    /\ ~loading
    /\ comparison = JsNull
    /\ requests = 1
    /\ Render.view = "failed"

(***************************************************************************)
(* storageService: the users list and the contracts list together          *)
(***************************************************************************)
\* the users handleLogin and ProfileView.handleSave hand to saveUser
UserPool == {[id |-> email, email |-> email, name |-> name] :
                email \in Users, name \in {"User", "Ann"}}

\* a saveUser call runs to its end
saveUserCall(newUser, writeOk) ==
    LET saved == saveUser(lsUsers, newUser, writeOk)
    IN  /\ lsUsers' = saved.item
        /\ lastSave' = Some([user |-> newUser, threw |-> saved.threw])
        /\ UNCHANGED <<view, selectedContract, asks, asked, dashContracts, dashRecent,
                       lsCurrentUser>>
        /\ UNCHANGED <<storeVars, inserted, user, nextId, now>>
        /\ UNCHANGED <<uploadVars, compareVars, geminiVars, sessionVars>>

InitUsers ==
    /\ Idle
    /\ cvContracts = <<>>
    /\ comparison = JsNull
    /\ loading = TRUE

NextUsers ==
    \/ \E contract \in ContractPool, writeOk \in BOOLEAN : saveContractCall(contract, writeOk)
    \/ \E newUser \in UserPool, writeOk \in BOOLEAN : saveUserCall(newUser, writeOk)

SpecUsers == InitUsers /\ [][NextUsers]_vars

\* C19: a saveContract call whose storage write fails throws, a saveUser call
\* whose storage write fails returns normally, and after either call the
\* stored users list and the stored contracts list are what they were before.
C19_WriteFailureKeepsStores ==
    [][/\ \A contract \in ContractPool :
             saveContractCall(contract, FALSE) =>
                /\ The(lastSave').threw
                /\ lsContracts' = lsContracts /\ lsUsers' = lsUsers
       /\ \A newUser \in UserPool :
             saveUserCall(newUser, FALSE) =>
                /\ ~The(lastSave').threw
                /\ lsContracts' = lsContracts /\ lsUsers' = lsUsers]_vars

\* C19 witness: both lists are stored, and the last call was a saveUser that
\* returned normally although its write failed: its user is not as stored
C19_Witness ==
    /\ lsContracts # None
    /\ lsUsers # None
    /\ lastSave # None
    /\ "user" \in DOMAIN The(lastSave)
    /\ ~The(lastSave).threw
    /\ The(lastSave).user \notin Range(getUsers(lsUsers))

(***************************************************************************)
(* Specification of the upload screen under every response of the backend  *)
(***************************************************************************)
\* analyzeContract returns what JSON.parse made of the model output, so the
\* output "null" is among the outcomes
AnyEnvOutcomes == EnvOutcomes \cup EnvNullOutcomes

NextAnyResponse ==
    \/ \E fileList \in FileLists : validateAndAddFiles(fileList)
    \/ \E index \in 1..MaxFiles : handleRemoveFile(index)
    \/ ClearAll
    \/ \E index \in 1..MaxFiles : retryFile(index)
    \/ \E call \in BagToSet(retries), env \in AnyEnvOutcomes : retrySettled(call, env)
    \/ handleAnalyzeAll
    \/ \E k \in 1..MaxFiles, env \in AnyEnvOutcomes : batchSettled(k, env)

SpecAnyResponse == Init /\ [][NextAnyResponse]_vars

\* the contracts the program holds: stored ones, those of the batch entries,
\* those handed to onUploadComplete and the selected one
HeldContracts ==
    Range(ReadContracts(lsContracts))
    \cup UNION {files[i].contract : i \in 1..Len(files)}
    \cup Range(completed)
    \cup selectedContract

\* C12: every contract with status 'analyzed' that is stored, attached to a
\* batch entry or selected has an analysis that is not null, whatever the
\* backend returned to analyzeContract.
C12_AnalyzedHasAnalysis ==
    \A c \in HeldContracts :
        c.status = "analyzed" => (c.analysis # None /\ The(c.analysis) # JsNull)

(***************************************************************************)
(* App: login, dashboard, upload, analysis view and clause questions       *)
(***************************************************************************)
\* handleAsk calls issued
MaxAsks == 2
\* files uploaded
MaxUploads == 1

\* a response with two clauses
AnalysisTwo ==
    [summary |-> "s4", overallRisk |-> "Medium", riskScore |-> Some(50),
     clauses |-> <<Clause1, Clause2>>, fullText |-> Some("ocr")]

\* what the environment does to the upload of the one file
AppEnvs ==
    { EnvClean,
      Env(TRUE, FALSE, AnalysisTwo, "", TRUE, TRUE),
      Env(TRUE, TRUE, JsNull, QuotaMsg, TRUE, TRUE) }

\* what generateContent settles with for a clause question
AskOutcomes == {Response(Some(Prose("answer"))), Thrown(BackendDownMsg)}

\* the texts typed into the question inputs, in the order of the asking
QuestionText(n) == <<"q2", "q3", "q4", "q5">>[n]

\* Auth calls onLogin(email, 'User') on its login form
LoginUsers == {u \in UserPool : u.name = "User"}

\* the file of the single-file batch, as handleAnalyzeAll hands it to processFile
UploadedFile ==
    [file |-> [name |-> "a.pdf", type |-> "application/pdf", size |-> 1024],
     status |-> "pending", error |-> None, contract |-> None, uid |-> 1]

\* Dashboard mounts for userId: loadData, with the stores as given
DashboardMounts(userId, contractsItem, recentItem) ==
    /\ dashContracts' = getContracts(contractsItem, userId)
    /\ dashRecent' = getRecentAnalyses(recentItem)
    /\ selectedIds' = <<>>

\* Dashboard unmounts: its state is gone
DashboardUnmounts ==
    /\ dashContracts' = <<>>
    /\ dashRecent' = <<>>
    /\ selectedIds' = <<>>

handleLogin(newUser, writeCurrentOk, writeUsersOk) ==
    /\ appUser = None
    /\ lsCurrentUser' = setCurrentUser(lsCurrentUser, Some(newUser), writeCurrentOk)
    /\ appUser' = Some(newUser)
    /\ lsUsers' = saveUser(lsUsers, newUser, writeUsersOk).item
    /\ user' = newUser.id
    /\ view' = "dashboard"
    /\ DashboardMounts(newUser.id, lsContracts, lsRecent)
    /\ UNCHANGED <<selectedContract, asks, asked, nextId, now>>
    /\ UNCHANGED <<uploadVars, storeVars, compareVars, callVars, geminiVars, saves, uploading>>

handleLogout(writeOk) ==
    /\ appUser # None
    /\ lsCurrentUser' = setCurrentUser(lsCurrentUser, None, writeOk)
    /\ appUser' = None
    /\ view' = "auth"
    /\ selectedContract' = None
    /\ cvContracts' = <<>>
    /\ DashboardUnmounts
    /\ UNCHANGED <<asks, asked, lsUsers, user, nextId, now, comparison, loading>>
    /\ UNCHANGED <<uploadVars, storeVars, callVars, geminiVars, saves, uploading>>

\* Dashboard: onNewUpload
onNewUpload ==
    /\ view = "dashboard"
    /\ view' = "upload"
    /\ DashboardUnmounts
    /\ UNCHANGED <<selectedContract, asks, asked, lsUsers, lsCurrentUser, user, nextId, now>>
    /\ UNCHANGED <<uploadVars, storeVars, compareVars, callVars, geminiVars, appUser, saves, uploading>>

\* the upload screen with one file: processFile settles, and on success
\* handleAnalyzeAll calls onUploadComplete (handleUploadComplete)
uploadSettled(env) ==
    /\ view = "upload"
    /\ nextId <= MaxUploads
    /\ LET p == processFile(UploadedFile, env)
       IN  /\ ProcessEffects(p)
           /\ IF p.result.status = "success"
              THEN /\ selectedContract' = p.result.contract
                   /\ view' = "analysis"
              ELSE UNCHANGED <<selectedContract, view>>
    /\ UNCHANGED <<asks, asked, dashContracts, dashRecent, lsUsers, lsCurrentUser, user>>
    /\ UNCHANGED <<uploadVars, compareVars, callVars, geminiVars, sessionVars>>

\* onBack of AnalysisView, onClose of ContractUpload, onNavigateHome
onBack ==
    /\ view \in {"analysis", "upload"}
    /\ view' = "dashboard"
    /\ DashboardMounts(user, lsContracts, lsRecent)
    /\ UNCHANGED <<selectedContract, asks, asked, lsUsers, lsCurrentUser, user, nextId, now>>
    /\ UNCHANGED <<uploadVars, storeVars, compareVars, callVars, geminiVars, appUser, saves, uploading>>

\* Dashboard: a click on a contract of the list
onSelectContract(index) ==
    /\ view = "dashboard"
    /\ index \in 1..Len(dashContracts)
    /\ selectedContract' = Some(dashContracts[index])
    /\ view' = "analysis"
    /\ DashboardUnmounts
    /\ UNCHANGED <<asks, asked, lsUsers, lsCurrentUser, user, nextId, now>>
    /\ UNCHANGED <<uploadVars, storeVars, compareVars, callVars, geminiVars, appUser, saves, uploading>>

\* the Contract handleSelectRecent builds from an entry of the cache
ContractOfRecent(recent, userId) ==
    [id |-> recent.id, userId |-> userId,
     fileName |-> OrElse(recent.fileName, recent.name),
     uploadDate |-> recent.createdAt.iso, status |-> "analyzed",
     analysis |-> Some([summary |-> recent.summary[1], overallRisk |-> recent.riskSummary,
                        riskScore |-> Some(recent.riskScore), clauses |-> recent.clauses,
                        fullText |-> Some(recent.rawText)]),
     fileData |-> None, mimeType |-> None]

handleSelectRecent(index) ==
    /\ view = "dashboard"
    /\ index \in 1..Len(dashRecent)
    /\ selectedContract' = Some(ContractOfRecent(dashRecent[index], user))
    /\ view' = "analysis"
    /\ DashboardUnmounts
    /\ UNCHANGED <<asks, asked, lsUsers, lsCurrentUser, user, nextId, now>>
    /\ UNCHANGED <<uploadVars, storeVars, compareVars, callVars, geminiVars, appUser, saves, uploading>>

\* the confirmed click on Clear History
handleClearHistory ==
    /\ view = "dashboard"
    /\ dashRecent # <<>>
    /\ lsRecent' = clearRecentAnalyses(lsRecent)
    /\ dashRecent' = <<>>
    /\ UNCHANGED <<view, selectedContract, asks, asked, dashContracts, lsUsers,
                   lsCurrentUser, user, nextId, now, lsContracts>>
    /\ UNCHANGED <<uploadVars, compareVars, callVars, geminiVars, sessionVars>>

\* ClauseCard.handleAsk up to its await (button or Enter key): the closure
\* holds the clause and, through onUpdate, the contract of the last render
handleAsk(index) ==
    /\ view = "analysis"
    /\ selectedContract # None
    /\ The(selectedContract).analysis # None
    /\ The(The(selectedContract).analysis) # JsNull
    /\ index \in 1..Len(The(The(selectedContract).analysis).clauses)
    /\ asked < MaxAsks
    /\ asks' = asks \cup {[clause |-> The(The(selectedContract).analysis).clauses[index],
                           contract |-> The(selectedContract),
                           question |-> QuestionText(asked + 1)]}
    /\ asked' = asked + 1
    /\ UNCHANGED <<view, selectedContract, dashContracts, dashRecent, lsUsers,
                   lsCurrentUser, user, nextId, now>>
    /\ UNCHANGED <<uploadVars, storeVars, compareVars, callVars, geminiVars, sessionVars>>

\* [...(clause.conversationHistory || []), newHistoryItem]
UpdatedClause(clause, newHistoryItem) ==
    [clause EXCEPT !.conversationHistory =
        Some((IF @ = None THEN <<>> ELSE The(@)) \o <<newHistoryItem>>)]

\* AnalysisView.handleClauseUpdate: the contract of its render with the
\* clause replaced
UpdatedContract(contract, updatedClause) ==
    LET clauses == The(contract.analysis).clauses
    IN  [contract EXCEPT !.analysis =
            Some([The(@) EXCEPT !.clauses =
                    [j \in 1..Len(clauses) |->
                        IF clauses[j].id = updatedClause.id THEN updatedClause
                        ELSE clauses[j]]])]

\* askClauseQuestion settles: the rest of handleAsk, handleClauseUpdate and
\* handleContractUpdate (a failure of saveContract is logged)
askSettled(ask, outcome, writeOk) ==
    /\ ask \in asks
    /\ LET result          == askClauseQuestion(apiKey, outcome).value
           newHistoryItem  == [question |-> ask.question, answer |-> result,
                               timestamp |-> now]
           updatedContract == UpdatedContract(ask.contract,
                                              UpdatedClause(ask.clause, newHistoryItem))
       IN  /\ selectedContract' = Some(updatedContract)
           /\ lsContracts' = saveContract(lsContracts, updatedContract, writeOk).item
    /\ asks' = asks \ {ask}
    /\ UNCHANGED <<view, asked, dashContracts, dashRecent, lsUsers, lsCurrentUser,
                   user, nextId, now, lsRecent>>
    /\ UNCHANGED <<uploadVars, compareVars, callVars, geminiVars, sessionVars>>

\* a fresh browser: nothing stored, the login form is shown
InitApp ==
    /\ files = <<>>
    /\ globalError = None
    /\ batch = None
    /\ retries = EmptyBag
    /\ completed = <<>>
    /\ user = "u1@x"
    /\ lsContracts = None
    /\ lsRecent = None
    /\ nextId = 1
    /\ now = 1000
    /\ submitted = 0
    /\ lastRun = 0
    /\ lastSave = None
    /\ inserted = <<>>
    /\ cvContracts = <<>>
    /\ comparison = JsNull
    /\ loading = TRUE
    /\ apiKey = TRUE
    /\ requests = 0
    /\ lastCall = None
    /\ AppIdle("auth")

NextApp ==
    \/ \E newUser \in LoginUsers : handleLogin(newUser, TRUE, TRUE)
    \/ handleLogout(TRUE)
    \/ onNewUpload
    \/ \E env \in AppEnvs : uploadSettled(env)
    \/ onBack
    \/ \E index \in 1..MaxUploads : onSelectContract(index)
    \/ \E index \in 1..MaxUploads : handleSelectRecent(index)
    \/ handleClearHistory
    \/ \E index \in 1..2 : handleAsk(index)
    \/ \E ask \in asks, outcome \in AskOutcomes, writeOk \in BOOLEAN :
          askSettled(ask, outcome, writeOk)

SpecApp == InitApp /\ [][NextApp]_vars

\* s is t or a beginning of t
IsPrefix(s, t) == Len(s) <= Len(t) /\ SubSeq(t, 1, Len(s)) = s

\* clause.conversationHistory || []
HistoryOf(clause) ==
    IF clause.conversationHistory = None THEN <<>> ELSE The(clause.conversationHistory)

\* the clauses of a contract; none without an analysis
ClausesOf(contract) ==
    IF contract.analysis = None \/ The(contract.analysis) = JsNull THEN <<>>
    ELSE The(contract.analysis).clauses

\* every clause of before is a clause of after, its history continued
HistoriesGrow(before, after) ==
    \A i \in 1..Len(ClausesOf(before)) :
        \E j \in 1..Len(ClausesOf(after)) :
            /\ ClausesOf(after)[j].id = ClausesOf(before)[i].id
            /\ IsPrefix(HistoryOf(ClausesOf(before)[i]), HistoryOf(ClausesOf(after)[j]))

\* C13: the conversationHistory of a clause only grows by appending: in the
\* stored contract with every step, and in the selected contract while the
\* analysis view stays open, however the clause questions interleave.
C13_HistoryOnlyAppended ==
    [][/\ \A before \in Range(ReadContracts(lsContracts)) :
             \A after \in Range(ReadContracts(lsContracts')) :
                 after.id = before.id => HistoriesGrow(before, after)
       /\ (/\ view = "analysis" /\ view' = "analysis"
           /\ selectedContract # None /\ selectedContract' # None
           /\ The(selectedContract').id = The(selectedContract).id)
          => HistoriesGrow(The(selectedContract), The(selectedContract'))]_vars

\* ids of the contracts getContracts returns for userId
StoredIds(item, userId) ==
    {c.id : c \in Range(getContracts(item, userId))}

\* C14: contracts are never deleted: an id that getContracts(U) contains is
\* contained in every later getContracts(U), whatever users of the browser
\* log in, log out, upload, select recent analyses and update clauses.
C14_ContractsNeverDeleted ==
    [][\A userId \in Users :
          StoredIds(lsContracts, userId) \subseteq StoredIds(lsContracts', userId)]_vars

\* C21: every contract update is set into memory and persisted: when
\* handleContractUpdate has settled, the contract stored under the id of the
\* update equals the selected contract.
C21_UpdateSetAndPersisted ==
    [][\A ask \in asks, outcome \in AskOutcomes, writeOk \in BOOLEAN :
          askSettled(ask, outcome, writeOk) =>
             /\ selectedContract' # None
             /\ The(selectedContract') \in Range(ReadContracts(lsContracts'))]_vars

\* after is before with one QAPair appended to the history of the clause
\* clauseId and nothing else changed
OnlyHistoryAppended(before, after, clauseId) ==
    /\ \A k \in ContractKeys \ {"analysis"} : after[k] = before[k]
    /\ before.analysis # None /\ after.analysis # None
    /\ \A k \in AnalysisKeys \ {"clauses"} : The(after.analysis)[k] = The(before.analysis)[k]
    /\ Len(ClausesOf(after)) = Len(ClausesOf(before))
    /\ \A j \in 1..Len(ClausesOf(before)) :
          LET old == ClausesOf(before)[j]
              new == ClausesOf(after)[j]
          IN  IF old.id = clauseId
              THEN /\ \A k \in ClauseKeys \ {"conversationHistory"} : new[k] = old[k]
                   /\ Len(HistoryOf(new)) = Len(HistoryOf(old)) + 1
                   /\ IsPrefix(HistoryOf(old), HistoryOf(new))
              ELSE new = old

\* the clause of the question has in the stored contract the history the
\* question was asked on (no other answer was recorded in between)
AskedOnStoredHistory(ask, stored) ==
    \A j \in 1..Len(ClausesOf(stored)) :
        ClausesOf(stored)[j].id = ask.clause.id =>
            HistoryOf(ClausesOf(stored)[j]) = HistoryOf(ask.clause)

\* C25: recording a Q&A entry changes the stored contract only in the
\* conversationHistory of that clause, to which one QAPair is appended; every
\* other field and clause is unchanged, also for a contract opened from the
\* recent-analyses list.
C25_OnlyClauseHistoryChanges ==
    [][\A ask \in asks, outcome \in AskOutcomes :
          askSettled(ask, outcome, TRUE) =>
             \A before \in Range(ReadContracts(lsContracts)) :
                 (before.id = ask.contract.id /\ AskedOnStoredHistory(ask, before)) =>
                     \E after \in Range(ReadContracts(lsContracts')) :
                         /\ after.id = before.id
                         /\ OnlyHistoryAppended(before, after, ask.clause.id)]_vars

\* C26: what a logged-in user is shown belongs to that user: the saved
\* documents and the recent analyses of the dashboard and the selected
\* contract of the analysis screen are of documents stored under the user's id.
C26_PerUserIsolation ==
    appUser # None =>
        LET stored == Range(ReadContracts(lsContracts))
            mine(id) == \A c \in stored : c.id = id => c.userId = The(appUser).id
        IN  /\ \A i \in 1..Len(dashContracts) : dashContracts[i].userId = The(appUser).id
            /\ \A i \in 1..Len(dashRecent) : mine(dashRecent[i].id)
            /\ (view = "analysis" /\ selectedContract # None) => mine(The(selectedContract).id)

\* the contracts list after a processFile call that resolved to result
\* agrees with the result: a success carries a Contract of status 'analyzed'
\* stored under the uploading user, an error has stored nothing
StoredAsShown(result, before, after) ==
    /\ result.status = "success" =>
          /\ result.contract # None
          /\ The(result.contract).status = "analyzed"
          /\ The(result.contract).userId = user
          /\ The(result.contract) \in Range(getContracts(after, user))
    /\ result.status = "error" => after = before

\* C24: an entry marked success carries a Contract of status 'analyzed' that
\* was stored under the uploading user before the entry was marked; an entry
\* that ends in error has left no contract of its own in the stored list.
C24_ShownStatusAgreesWithStore ==
    [][/\ \A k \in 1..MaxFiles, env \in AnyEnvOutcomes :
             batchSettled(k, env) =>
                StoredAsShown(processFile(The(batch).items[k].fileState, env).result,
                              lsContracts, lsContracts')
       /\ \A call \in BagToSet(retries), env \in AnyEnvOutcomes :
             retrySettled(call, env) =>
                StoredAsShown(processFile(call.fileState, env).result,
                              lsContracts, lsContracts')]_vars

(***************************************************************************)
(* Retries and removals, every read and request settling                   *)
(***************************************************************************)
\* the processFile calls retryFile can have in flight
RetryCalls ==
    {[index |-> i,
      fileState |-> [file |-> [name |-> "a.pdf", type |-> "application/pdf",
                               size |-> MaxFileSize],
                     status |-> "pending", error |-> None, contract |-> None,
                     uid |-> u]] : i, u \in 1..MaxBatch}

\* the FileReader and the request of every call in flight settle at some time
SpecRetryLive ==
    /\ InitRetry
    /\ [][NextRetry]_vars
    /\ \A call \in RetryCalls : WF_vars(\E env \in EnvOutcomes : retrySettled(call, env))

\* the entry of the file uid is in the batch with one of the statuses
StatusShown(uid, statuses) ==
    \E i \in 1..Len(files) : files[i].uid = uid /\ files[i].status \in statuses

\* C23: when every read and request settles, every entry that enters
\* processing shows success or error at some later time, under any
\* interleaving of retries with removals of other entries.
C23_ProcessingEndsInSuccessOrError ==
    \A uid \in 1..MaxBatch :
        StatusShown(uid, {"processing"}) ~> StatusShown(uid, {"success", "error"})

(***************************************************************************)
(* geminiService: the two calls that fail hard, under the errors of the    *)
(* backend                                                                 *)
(***************************************************************************)
ApiKeyIsMissingMsg == "API Key is missing. Please set process.env.API_KEY."

analyzeContract(key, outcome) ==
    IF ~key THEN Rejected(Err("", ApiKeyIsMissingMsg))
    ELSE IF outcome.threw THEN Rejected(handleGenAIError(outcome.message))
    ELSE LET parsed == parseJSONResponse(outcome.text)
         IN  IF parsed.rejected THEN Rejected(handleGenAIError(parsed.error.message))
             ELSE parsed

\* messages of the Errors generateContent throws
RawMessages ==
    { BackendDownMsg, RateLimitMsg,
      "Resource exhausted: quota exceeded for this API key",
      "403 Permission denied",
      "API key not valid. Please pass a valid API key.",
      "413 Request entity too large",
      "The model is overloaded. Please try again later.",
      "Response was blocked due to SAFETY",
      "Unexpected token < in JSON at position 0",
      "Invalid JSON payload received. Unknown name \"key\"",
      "Upload blocked: the file is too large",
      "fetch failed", "" }

\* what generateContent may settle with: an Error, or a response whose text
\* is undefined, empty, prose, or a JSON text with or without a code fence
ErrorOutcomes ==
    {Thrown(m) : m \in RawMessages}
    \cup { Response(None), Response(Some(Prose(""))),
           Response(Some(Prose("I cannot compare these."))),
           Response(Some(JsonText(Comparison(Some(1)), FALSE))),
           Response(Some(JsonText(Comparison(Some(2)), TRUE))) }

\* processFile calls analyzeContract and it settles
analyzeContractCall(outcome) ==
    /\ requests < MaxRequests
    /\ requests' = requests + 1
    /\ lastCall' = Some([fn |-> "analyzeContract", issued |-> apiKey, raw |-> outcome,
                         settled |-> analyzeContract(apiKey, outcome)])
    /\ UNCHANGED <<apiKey, user, nextId, now>>
    /\ UNCHANGED <<uploadVars, storeVars, callVars, compareVars, appVars, sessionVars>>

\* fetchComparison calls compareContracts and it settles
compareContractsCall(contracts, outcome) ==
    /\ requests < MaxRequests
    /\ requests' = requests + 1
    /\ lastCall' = Some([fn |-> "compareContracts",
                         issued |-> apiKey /\ ~ContextThrows(contracts), raw |-> outcome,
                         settled |-> compareContracts(contracts, apiKey, outcome)])
    /\ UNCHANGED <<apiKey, user, nextId, now>>
    /\ UNCHANGED <<uploadVars, storeVars, callVars, compareVars, appVars, sessionVars>>

NextErrors ==
    \/ \E outcome \in ErrorOutcomes : analyzeContractCall(outcome)
    \/ \E contracts \in GeminiLists, outcome \in ErrorOutcomes :
          compareContractsCall(contracts, outcome)

SpecErrors == InitGemini /\ [][NextErrors]_vars

\* the kinds of failure in the order of the rules, each with the words that
\* select it and the message of the failure raised
ErrorKinds ==
    << [kind |-> "quota/rate-limit", words |-> {"429", "quota", "resource exhausted"},
        message |-> QuotaMsg],
       [kind |-> "auth/key", words |-> {"403", "key", "permission"},
        message |-> "Authentication failed. Please check the system configuration."],
       [kind |-> "payload-too-large", words |-> {"413", "too large"},
        message |-> "The document is too large for the AI to process."],
       [kind |-> "service-unavailable", words |-> {"503", "overloaded", "unavailable"},
        message |-> "AI service is temporarily unavailable. Please retry."],
       [kind |-> "content-safety-block", words |-> {"safety", "blocked"},
        message |-> "The document was flagged by safety settings and could not be analyzed."],
       [kind |-> "malformed-response", words |-> {"json", "parse"},
        message |-> "Received an invalid response format from AI. Please retry."] >>

\* the rules that match a message
Matching(message) ==
    {i \in 1..Len(ErrorKinds) : ErrorKinds[i].words \cap MessageWords(message) # {}}

\* the failure of the first matching rule, and the unexpected bucket
Classified(message) ==
    IF message = "" THEN Err("", "An unexpected error occurred during processing.")
    ELSE IF Matching(message) = {} THEN Err("Processing failed: ", message)
    ELSE LET first == CHOOSE i \in Matching(message) : \A j \in Matching(message) : i <= j
         IN  Err("", ErrorKinds[first].message)

\* a call of one of the two functions whose request was issued
HardCall ==
    /\ lastCall # None
    /\ The(lastCall).fn \in {"analyzeContract", "compareContracts"}
    /\ "issued" \in DOMAIN The(lastCall)
    /\ The(lastCall).issued

\* every Error of the backend is raised as the failure of the first matching rule
ThrownClassified ==
    (HardCall /\ The(lastCall).raw.threw) =>
        The(lastCall).settled = Rejected(Classified(The(lastCall).raw.message))

\* a response text that is not valid JSON is raised as malformed-response
NonJSONMalformed ==
    (HardCall /\ ~The(lastCall).raw.threw /\ The(lastCall).raw.text # None
       /\ The(The(lastCall).raw.text).json = None) =>
        The(lastCall).settled = Rejected(Err("", ErrorKinds[6].message))

\* C22: for every raw backend error analyzeContract and compareContracts
\* raise exactly one classified failure, that of the first matching rule in
\* the order quota/rate-limit, auth/key, payload-too-large,
\* service-unavailable, content-safety-block, malformed-response, otherwise
\* the unexpected bucket; a model output that is not valid JSON is raised as
\* malformed-response.
C22_BackendErrorsClassified == ThrownClassified /\ NonJSONMalformed

(***************************************************************************)
(* App: session, navigation, uploads and profile saves in flight, and the  *)
(* selection for comparison                                                *)
(***************************************************************************)
\* Dashboard: const MAX_COMPARE = 3
MAX_COMPARE == 3
\* contracts the first user has stored in earlier sessions
MaxEarlier == 3
\* ProfileView.handleSave calls in flight
MaxSaves == 1

\* the contracts of earlier sessions
EarlierContracts == [i \in 1..MaxEarlier |-> PlainContract(100 + i, "old.pdf")]

\* the names typed into the profile form
ProfileNames == {"Ann"}

\* what the environment does to the upload of the one file
SessionEnvs == {EnvClean, Env(TRUE, TRUE, JsNull, QuotaMsg, TRUE, TRUE)}

\* Layout: a click on the logo
onNavigateHome ==
    /\ appUser # None
    /\ view # "dashboard"
    /\ view' = "dashboard"
    /\ DashboardMounts(The(appUser).id, lsContracts, lsRecent)
    /\ UNCHANGED <<selectedContract, asks, asked, lsUsers, lsCurrentUser, user, nextId, now>>
    /\ UNCHANGED <<uploadVars, storeVars, compareVars, callVars, geminiVars, appUser, saves, uploading>>

\* Layout: a click on the profile button, rendered when a user is logged in
onNavigateProfile ==
    /\ appUser # None
    /\ view # "profile"
    /\ view' = "profile"
    /\ DashboardUnmounts
    /\ UNCHANGED <<selectedContract, asks, asked, lsUsers, lsCurrentUser, user, nextId, now>>
    /\ UNCHANGED <<uploadVars, storeVars, compareVars, callVars, geminiVars, appUser, saves, uploading>>

\* ContractUpload with one file: handleAnalyzeAll up to its await; the run
\* holds the user the ContractUpload was rendered for
handleAnalyzeAllSingle ==
    /\ appUser # None
    /\ view = "upload"
    /\ nextId + Cardinality(uploading) <= MaxUploads
    /\ uploading' = uploading \cup {[userId |-> The(appUser).id,
                                     slot |-> Cardinality(uploading) + 1]}
    /\ UNCHANGED <<uploadVars, storeVars, compareVars, callVars, geminiVars, appVars>>
    /\ UNCHANGED <<user, nextId, now, appUser, saves, selectedIds>>

\* processFile settles for the one file and handleAnalyzeAll runs to its
\* end, whether its ContractUpload is still mounted or not: on success it
\* calls onUploadComplete (handleUploadComplete)
handleAnalyzeAllSingleSettled(run, env) ==
    /\ run \in uploading
    /\ LET p == processFileFor(run.userId, UploadedFile, env)
       IN  /\ ProcessEffects(p)
           /\ IF p.result.status = "success"
              THEN /\ selectedContract' = p.result.contract
                   /\ view' = "analysis"
                   /\ DashboardUnmounts
              ELSE UNCHANGED <<selectedContract, view, dashContracts, dashRecent, selectedIds>>
    /\ uploading' = uploading \ {run}
    /\ UNCHANGED <<asks, asked, lsUsers, lsCurrentUser, user, appUser, saves>>
    /\ UNCHANGED <<uploadVars, compareVars, callVars, geminiVars>>

\* Dashboard: a click on the checkbox of a contract
toggleSelection(id) ==
    /\ view = "dashboard"
    /\ \E i \in 1..Len(dashContracts) : dashContracts[i].id = id
    /\ selectedIds' = IF id \in Range(selectedIds)
                      THEN SelectSeq(selectedIds, LAMBDA sid : sid # id)
                      ELSE IF Len(selectedIds) < MAX_COMPARE
                           THEN Append(selectedIds, id)
                           ELSE selectedIds
    /\ UNCHANGED <<view, selectedContract, asks, asked, dashContracts, dashRecent,
                   lsUsers, lsCurrentUser, user, nextId, now>>
    /\ UNCHANGED <<uploadVars, storeVars, compareVars, callVars, geminiVars,
                   appUser, saves, uploading>>

\* mutant of handleCompareClick: one selected contract is enough
handleCompareClickAny ==
    /\ view = "dashboard"
    /\ Len(selectedIds) >= 1
    /\ LET selectedContracts == SelectSeq(dashContracts,
                                          LAMBDA c : c.id \in Range(selectedIds))
       IN  /\ Len(selectedContracts) >= 1
           /\ cvContracts' = selectedContracts
    /\ view' = "compare"
    /\ comparison' = JsNull
    /\ loading' = TRUE
    /\ DashboardUnmounts
    /\ UNCHANGED <<selectedContract, asks, asked, lsUsers, lsCurrentUser, user, nextId, now>>
    /\ UNCHANGED <<uploadVars, storeVars, callVars, geminiVars, appUser, saves, uploading>>

\* Dashboard: the Compare button (disabled under two selected ids), then
\* App.handleCompare; CompareView mounts
handleCompareClick ==
    /\ view = "dashboard"
    /\ Len(selectedIds) >= 2
    /\ LET selectedContracts == SelectSeq(dashContracts,
                                          LAMBDA c : c.id \in Range(selectedIds))
       IN  /\ Len(selectedContracts) >= 2
           /\ cvContracts' = selectedContracts
    /\ view' = "compare"
    /\ comparison' = JsNull
    /\ loading' = TRUE
    /\ DashboardUnmounts
    /\ UNCHANGED <<selectedContract, asks, asked, lsUsers, lsCurrentUser, user, nextId, now>>
    /\ UNCHANGED <<uploadVars, storeVars, callVars, geminiVars, appUser, saves, uploading>>

\* ProfileView.handleSave up to its await: the closure holds the user of
\* its render and the name typed
handleSave(name) ==
    /\ appUser # None
    /\ view = "profile"
    /\ Cardinality(saves) < MaxSaves
    /\ saves' = saves \cup {[user |-> The(appUser), name |-> name]}
    /\ UNCHANGED <<uploadVars, storeVars, compareVars, callVars, geminiVars, appVars>>
    /\ UNCHANGED <<user, nextId, now, appUser, uploading, selectedIds>>

\* the timer of handleSave fires: saveUser, setCurrentUser and onUpdateUser
\* (handleUserUpdate); a Dashboard that is mounted reloads when user.id changes
handleSaveSettled(save) ==
    /\ save \in saves
    /\ LET updatedUser == Spread(save.user, [name |-> save.name])
       IN  /\ lsUsers' = saveUser(lsUsers, updatedUser, TRUE).item
           /\ lsCurrentUser' = setCurrentUser(lsCurrentUser, Some(updatedUser), TRUE)
           /\ appUser' = Some(updatedUser)
           /\ user' = updatedUser.id
           /\ IF view = "dashboard" /\ appUser # Some(save.user)
                 /\ (appUser = None \/ The(appUser).id # updatedUser.id)
              THEN /\ dashContracts' = getContracts(lsContracts, updatedUser.id)
                   /\ dashRecent' = getRecentAnalyses(lsRecent)
              ELSE UNCHANGED <<dashContracts, dashRecent>>
    /\ saves' = saves \ {save}
    /\ UNCHANGED <<view, selectedContract, asks, asked, nextId, now, uploading, selectedIds>>
    /\ UNCHANGED <<uploadVars, storeVars, compareVars, callVars, geminiVars>>

\* a browser in which the first user has logged in, stored contracts,
\* cleared the recent analyses and logged out
InitSession ==
    /\ files = <<>>
    /\ globalError = None
    /\ batch = None
    /\ retries = EmptyBag
    /\ completed = <<>>
    /\ user = "u1@x"
    /\ lsContracts = Some(JSONstringifyContracts(EarlierContracts))
    /\ lsRecent = None
    /\ nextId = 1
    /\ now = 1000
    /\ submitted = 0
    /\ lastRun = 0
    /\ lastSave = None
    /\ inserted = <<>>
    /\ cvContracts = <<>>
    /\ comparison = JsNull
    /\ loading = TRUE
    /\ apiKey = TRUE
    /\ requests = 0
    /\ lastCall = None
    /\ view = "auth"
    /\ selectedContract = None
    /\ asks = {}
    /\ asked = 0
    /\ dashContracts = <<>>
    /\ dashRecent = <<>>
    /\ lsUsers = Some(<<[id |-> "u1@x", email |-> "u1@x", name |-> "User"]>>)
    /\ lsCurrentUser = None
    /\ appUser = None
    /\ saves = {}
    /\ uploading = {}
    /\ selectedIds = <<>>

NextSession ==
    \/ \E newUser \in LoginUsers : handleLogin(newUser, TRUE, TRUE)
    \/ handleLogout(TRUE)
    \/ onNavigateHome
    \/ onNavigateProfile
    \/ onNewUpload
    \/ handleAnalyzeAllSingle
    \/ \E run \in uploading, env \in SessionEnvs : handleAnalyzeAllSingleSettled(run, env)
    \/ \E index \in 1..(MaxEarlier + MaxUploads) : onSelectContract(index)
    \/ \E index \in 1..MaxUploads : handleSelectRecent(index)
    \/ \E id \in (1..MaxUploads) \cup (101..(100 + MaxEarlier)) : toggleSelection(id)
    \/ handleCompareClick
    \/ \E name \in ProfileNames : handleSave(name)
    \/ \E save \in saves : handleSaveSettled(save)

SpecSession == InitSession /\ [][NextSession]_vars

\* C27: after handleLogout the stored current-user marker is absent and the
\* user in memory is null until the next handleLogin, also when a
\* ProfileView.handleSave that began before the logout completes after it.
C27_LoggedOutUntilLogin ==
    [][(/\ appUser = None
        /\ lsCurrentUser = None
        /\ ~ \E newUser \in LoginUsers : handleLogin(newUser, TRUE, TRUE))
       => (appUser' = None /\ lsCurrentUser' = None)]_vars

\* C28: an upload run that settles while the upload screen is not the active
\* view (after a navigation to the dashboard or the profile, or a logout)
\* changes neither the view nor the selected contract.
C28_StaleUploadChangesNothing ==
    [][\A run \in uploading, env \in SessionEnvs :
          (handleAnalyzeAllSingleSettled(run, env) /\ (view # "upload" \/ appUser = None))
             => (view' = view /\ selectedContract' = selectedContract)]_vars

\* C29: while the view is 'analysis' the selected contract is not null, and
\* while the view is 'compare' the comparison set is not null and holds two
\* or three contracts.
C29_ViewHasItsData ==
    /\ view = "analysis" => selectedContract # None
    /\ view = "compare" => Len(cvContracts) \in {2, 3}

\* C29 witness: the comparison screen with three contracts, after the
\* analysis screen was shown for a contract
C29_Witness ==
    /\ view = "compare"
    /\ Len(cvContracts) = 3
    /\ selectedContract # None

\* the stored users
StoredUsers == Range(getUsers(lsUsers))

\* C30: a stored User record is created on the first login and changes
\* afterwards only through a profile edit: a login with an id that is
\* stored leaves the stored name as it is; the store holds one entry per id
\* and never loses an entry.
C30_UserRecordStable ==
    /\ [](\A i, j \in 1..Len(getUsers(lsUsers)) :
             getUsers(lsUsers)[i].id = getUsers(lsUsers)[j].id => i = j)
    /\ [][\A u \in StoredUsers : \E v \in Range(getUsers(lsUsers')) : v.id = u.id]_vars
    /\ [][(~ \E save \in saves : handleSaveSettled(save))
             => \A u \in StoredUsers : u \in Range(getUsers(lsUsers'))]_vars

====
